---- MODULE Spec2Model ----
(***************************************************************************)
(* Model of the identifier normaliser of pages/tekstnormalisering.py, of   *)
(* its free-text batch, and of the key normalisation, mapping construction *)
(* and two-tier resolution of the spreadsheet merger, pages/Sammenfletter, *)
(* of the token stores behind the downloads, of the spreadsheet tab of the *)
(* normaliser page and of the image stores, the ZIP download and the       *)
(* quality search of pages/resizer.                                        *)
(*                                                                         *)
(* A Python str is modelled as a sequence of one-character strings, so     *)
(* that trimming, splitting, counting and prepending are computed the way  *)
(* the code computes them.  The inputs are strings: the None that both     *)
(* functions hand back untouched is not one of them.                       *)
(***************************************************************************)
EXTENDS Integers, Sequences, FiniteSets, TLC

\* the normaliser applied to one token
VARIABLES token, pc, result, second, target, padded
\* norm_cell and base_key applied to one cell
VARIABLES cell, opts, key, bkey, cpc
\* the free-text batch of the normaliser page
VARIABLES inp, tokens, normalized, sara_query, tpc
\* one merge request
VARIABLES settings, df_export, df_other, mapping_full, mapping_base,
          title_series, total, matched, unmatched, row_i, mpc
\* the column guess of the merger
VARIABLES columns, exp_key_col, exp_title_col, gpc
\* the stores behind the two spreadsheet downloads, and the last answer
VARIABLES FILE_STORE, PAYLOAD_STORE, issued, last
\* merge requests in flight at the same time
VARIABLES reqs
\* the spreadsheet tab of the normaliser page
VARIABLES sheet_cols, sheet_rows, colname, out_cols, out_rows, spc
\* the stores of the image page, and its last answer
VARIABLES IMAGE_STORE, GROUP_STORE, img_issued, img_last
\* the quality search of create_thumbnail
VARIABLES quality, attempt, side, used, thpc

normVars == <<token, pc, result, second, target, padded>>
cellVars == <<cell, opts, key, bkey, cpc>>
textVars == <<inp, tokens, normalized, sara_query, tpc>>
mergeVars == <<settings, df_export, df_other, mapping_full, mapping_base,
               title_series, total, matched, unmatched, row_i, mpc>>
guessVars == <<columns, exp_key_col, exp_title_col, gpc>>

storeVars == <<FILE_STORE, PAYLOAD_STORE, issued, last>>
concVars == <<reqs>>
sheetVars == <<sheet_cols, sheet_rows, colname, out_cols, out_rows, spc>>
imgVars == <<IMAGE_STORE, GROUP_STORE, img_issued, img_last>>
thumbVars == <<quality, attempt, side, used, thpc>>
pageVars == <<storeVars, concVars, sheetVars, imgVars, thumbVars>>

vars == <<normVars, cellVars, textVars, mergeVars, guessVars, pageVars>>

(***************************************************************************)
(* A component that takes no part in a specification stays at rest.        *)
(***************************************************************************)
NormAtRest ==
    /\ token = <<>> /\ pc = "rest" /\ result = <<>> /\ second = <<>>
    /\ target = 0 /\ padded = <<>>

CellAtRest ==
    /\ cell = <<>> /\ opts = <<>> /\ key = <<>> /\ bkey = <<>> /\ cpc = "rest"

TextAtRest ==
    /\ inp = <<>> /\ tokens = <<>> /\ normalized = <<>> /\ sara_query = <<>>
    /\ tpc = "rest"

MergeAtRest ==
    /\ settings = <<>> /\ df_export = <<>> /\ df_other = <<>>
    /\ mapping_full = <<>> /\ mapping_base = <<>> /\ title_series = <<>>
    /\ total = 0 /\ matched = 0 /\ unmatched = 0 /\ row_i = 0 /\ mpc = "rest"

GuessAtRest ==
    /\ columns = <<>> /\ exp_key_col = <<>> /\ exp_title_col = <<>> /\ gpc = "rest"

StoreAtRest ==
    /\ FILE_STORE = <<>> /\ PAYLOAD_STORE = <<>> /\ issued = <<>> /\ last = <<>>

ConcAtRest == reqs = <<>>

SheetAtRest ==
    /\ sheet_cols = <<>> /\ sheet_rows = <<>> /\ colname = <<>>
    /\ out_cols = <<>> /\ out_rows = <<>> /\ spc = "rest"

ImgAtRest ==
    /\ IMAGE_STORE = <<>> /\ GROUP_STORE = <<>> /\ img_issued = 0
    /\ img_last = <<>>

ThumbAtRest ==
    /\ quality = 0 /\ attempt = 0 /\ side = 0 /\ used = <<>> /\ thpc = "rest"

\* the core components at rest, and the pages at rest
CoreAtRest ==
    NormAtRest /\ CellAtRest /\ TextAtRest /\ MergeAtRest /\ GuessAtRest

PagesAtRest ==
    StoreAtRest /\ ConcAtRest /\ SheetAtRest /\ ImgAtRest /\ ThumbAtRest

(***************************************************************************)
(* Bounds of the model.                                                    *)
(***************************************************************************)
\* longest enumerated input string
MaxLen == 4
\* largest target_digits handed to pad_left_ignoring_letters on its own
MaxTarget == 6

(***************************************************************************)
(* Program constants.                                                      *)
(***************************************************************************)
\* pad_left_ignoring_letters(left, 4) / (right, 4) of the x-rule
X_TARGET_DIGITS == 4
\* pad_left_ignoring_letters(left, 5) of the colon rule
COLON_TARGET_DIGITS == 5

(***************************************************************************)
(* Characters.                                                             *)
(***************************************************************************)
\* what \d matches in the inputs considered
Digits == {"0", "1", "2", "3", "4", "5", "6", "7", "8", "9"}

\* the no-break space U+00A0, one character
NBSP == "nbsp"

\* what str.strip() removes at both ends, and what \s matches
Whitespace == {" ", "\t", "\n", "\r", "\f", NBSP}

\* the characters the enumerated inputs are built from: a zero, a non-zero
\* digit, a letter, both separators of the x-rule, the colon, a blank
Alphabet == {"0", "1", "A", "x", "X", ":", " "}

Min(S) == CHOOSE i \in S : \A j \in S : i <= j
Max(S) == CHOOSE i \in S : \A j \in S : i >= j

\* c in s
Contains(s, c) == \E i \in DOMAIN s : s[i] = c

\* "0" * n
Zeros(n) == [i \in 1..n |-> "0"]

(***************************************************************************)
(* pad_left_ignoring_letters                                               *)
(***************************************************************************)
\* mutant: the digit class misses the zero ([1-9] for \d)
digit_count_nonzero(part) ==
    Cardinality({i \in DOMAIN part : part[i] \in Digits \ {"0"}})

\* len(re.findall(r"\d", str(part)))
digit_count(part) == Cardinality({i \in DOMAIN part : part[i] \in Digits})

\* mutant: the zeros are appended instead of prepended
pad_right_ignoring_letters(part, target_digits) ==
    LET dc == digit_count(part)
    IN  IF dc >= target_digits
        THEN part
        ELSE part \o Zeros(target_digits - dc)

\* mutant: the zeros go directly before the first digit, after the letters
pad_before_first_digit(part, target_digits) ==
    LET dc   == digit_count(part)
        hits == {i \in DOMAIN part : part[i] \in Digits}
        at   == IF hits = {} THEN Len(part) + 1 ELSE Min(hits)
    IN  IF dc >= target_digits
        THEN part
        ELSE SubSeq(part, 1, at - 1) \o Zeros(target_digits - dc)
                 \o SubSeq(part, at, Len(part))

pad_left_ignoring_letters(part, target_digits) ==
    LET dc == digit_count(part)
    IN  IF dc >= target_digits
        THEN part
        ELSE LET zeros_needed == target_digits - dc
             IN  Zeros(zeros_needed) \o part

(***************************************************************************)
(* normalize_token                                                         *)
(***************************************************************************)
\* mutant: only the left end is trimmed (lstrip)
lstrip(s) ==
    LET keep == {i \in DOMAIN s : s[i] \notin Whitespace}
    IN  IF keep = {} THEN <<>> ELSE SubSeq(s, Min(keep), Len(s))

\* mutant: the token is not trimmed at all
no_strip(s) == s

\* str(token).strip()
strip(s) ==
    LET keep == {i \in DOMAIN s : s[i] \notin Whitespace}
    IN  IF keep = {} THEN <<>> ELSE SubSeq(s, Min(keep), Max(keep))

\* mutant: split at the last separator (rsplit)
re_split_last(s, seps) ==
    LET hits == {i \in DOMAIN s : s[i] \in seps}
    IN  IF hits = {}
        THEN <<s>>
        ELSE <<SubSeq(s, 1, Max(hits) - 1), SubSeq(s, Max(hits) + 1, Len(s))>>

\* re.split(r"[xX]", s, maxsplit=1) and s.split(":", 1): the list of parts
re_split_first(s, seps) ==
    LET hits == {i \in DOMAIN s : s[i] \in seps}
    IN  IF hits = {}
        THEN <<s>>
        ELSE <<SubSeq(s, 1, Min(hits) - 1), SubSeq(s, Min(hits) + 1, Len(s))>>

\* mutant: the separator is always written in lower case
x_sep_lower(s) == "x"

\* sep_match = re.search(r"[xX]", s); sep_match.group(0) if sep_match else "x"
x_sep(s) ==
    LET hits == {i \in DOMAIN s : s[i] \in {"x", "X"}}
    IN  IF hits = {} THEN "x" ELSE s[Min(hits)]

\* mutant: the colon is not looked at
x_guard_no_colon_test(s) == Contains(s, "x") \/ Contains(s, "X")

\* ("x" in s or "X" in s) and ":" not in s
x_guard(s) == (Contains(s, "x") \/ Contains(s, "X")) /\ ~Contains(s, ":")

\* mutant: both sides must be non-empty for the rule to apply
x_parts_ok_nonempty(parts) ==
    Len(parts) = 2 /\ parts[1] # <<>> /\ parts[2] # <<>>

\* len(parts) == 2
x_parts_ok(parts) == Len(parts) = 2

\* mutant: the x-rule pads to the colon rule's width
x_rule_wide(s) ==
    LET parts == re_split_first(s, {"x", "X"})
    IN  pad_left_ignoring_letters(parts[1], COLON_TARGET_DIGITS) \o <<x_sep(s)>>
            \o pad_left_ignoring_letters(parts[2], COLON_TARGET_DIGITS)

\* the body of the x-rule: f"{left_padded}{sep}{right_padded}"
x_rule(s) ==
    LET parts        == re_split_first(s, {"x", "X"})
        left         == parts[1]
        right        == parts[2]
        left_padded  == pad_left_ignoring_letters(left, X_TARGET_DIGITS)
        right_padded == pad_left_ignoring_letters(right, X_TARGET_DIGITS)
        sep          == x_sep(s)
    IN  left_padded \o <<sep>> \o right_padded

\* the body of the colon rule: f"{left_padded}:{right}"
colon_rule(s) ==
    LET parts       == re_split_first(s, {":"})
        left        == parts[1]
        right       == parts[2]
        left_padded == pad_left_ignoring_letters(left, COLON_TARGET_DIGITS)
    IN  left_padded \o <<":">> \o right

\* "Hvis ingen regel passer, returner uaendret": return s
fallback(s) == s

normalize_token(t) ==
    LET s == strip(t)
    IN  IF s = <<>>
        THEN s
        ELSE IF x_guard(s) /\ x_parts_ok(re_split_first(s, {"x", "X"}))
        THEN x_rule(s)
        ELSE IF Contains(s, ":")
        THEN colon_rule(s)
        ELSE fallback(s)

(***************************************************************************)
(* Inputs.                                                                 *)
(***************************************************************************)
\* the tokens the documentation of the normaliser uses as examples
Samples ==
    { <<"0", "2", "1", "7", "x", "0", "0", "5", "4">>,
      <<"2", "1", "7", "x", "5", "4">>,
      <<"A", "B", "1", "x", "9", "9">>,
      <<"2", "1", "7", ":", "a", "b", "c">>,
      <<"1", "2", "x", "3", "4", "x", "5", "6">>,
      <<" ", " ", " ">>,
      <<"A", "B", "C", "1", "2", "3">>,
      <<"x", "5", "4">>,
      <<"2", "1", "7", "x">>,
      <<"\t", "2", "1", "7", "X", "5", "4", "\n">>,
      <<"\t", " ", "\r", "\n", "\f">> }

Tokens == UNION {[1..n -> Alphabet] : n \in 0..MaxLen} \cup Samples

Targets == 0..MaxTarget

(***************************************************************************)
(* The state machine: one token is normalised, and the result normalised   *)
(* again; or the padding helper is applied to the token on its own.        *)
(***************************************************************************)
Init ==
    /\ token \in Tokens
    /\ pc = "start"
    /\ result = <<>>
    /\ second = <<>>
    /\ target = 0
    /\ padded = <<>>
    /\ CellAtRest /\ TextAtRest /\ MergeAtRest /\ GuessAtRest
    /\ PagesAtRest

\* result = normalize_token(token)
Normalize ==
    /\ pc = "start"
    /\ result' = normalize_token(token)
    /\ pc' = "normalized"
    /\ UNCHANGED <<token, second, target, padded>>
    /\ UNCHANGED <<cellVars, textVars, mergeVars, guessVars, pageVars>>

\* second = normalize_token(result)
Renormalize ==
    /\ pc = "normalized"
    /\ second' = normalize_token(result)
    /\ pc' = "renormalized"
    /\ UNCHANGED <<token, result, target, padded>>
    /\ UNCHANGED <<cellVars, textVars, mergeVars, guessVars, pageVars>>

\* padded = pad_left_ignoring_letters(token, n)
Pad ==
    /\ pc = "start"
    /\ \E n \in Targets :
          /\ target' = n
          /\ padded' = pad_left_ignoring_letters(token, n)
    /\ pc' = "padded"
    /\ UNCHANGED <<token, result, second>>
    /\ UNCHANGED <<cellVars, textVars, mergeVars, guessVars, pageVars>>

Next == Normalize \/ Renormalize \/ Pad

Spec == Init /\ [][Next]_vars

(***************************************************************************)
(* Helpers of the properties.                                              *)
(***************************************************************************)
\* r is t without its leading and trailing whitespace
IsTrimOf(r, t) ==
    \E a \in 0..Len(t) : \E b \in 0..(Len(t) - a) :
        /\ r = SubSeq(t, a + 1, Len(t) - b)
        /\ \A i \in 1..a : t[i] \in Whitespace
        /\ \A i \in (Len(t) - b + 1)..Len(t) : t[i] \in Whitespace
        /\ r # <<>> => (r[1] \notin Whitespace /\ r[Len(r)] \notin Whitespace)

\* index of the first character of s that is in seps (s has one)
FirstAt(s, seps) == Min({i \in DOMAIN s : s[i] \in seps})

Before(s, i) == SubSeq(s, 1, i - 1)
After(s, i) == SubSeq(s, i + 1, Len(s))

NonDigits(s) == SelectSeq(s, LAMBDA c : c \notin Digits)

IsLetter(c) == c \notin Digits /\ c \notin Whitespace /\ c \notin {"x", "X", ":"}

\* r is s with "0" characters inserted and nothing else changed
RECURSIVE ZerosInserted(_, _)
ZerosInserted(s, r) ==
    IF r = <<>>
    THEN s = <<>>
    ELSE \/ s # <<>> /\ s[1] = r[1] /\ ZerosInserted(Tail(s), Tail(r))
         \/ r[1] = "0" /\ ZerosInserted(s, Tail(r))

T_217x54 == <<"2", "1", "7", "x", "5", "4">>
T_0217x0054 == <<"0", "2", "1", "7", "x", "0", "0", "5", "4">>
T_AB1x99 == <<"A", "B", "1", "x", "9", "9">>
T_217colon == <<"2", "1", "7", ":", "a", "b", "c">>
T_12x34x56 == <<"1", "2", "x", "3", "4", "x", "5", "6">>
T_ABC123 == <<"A", "B", "C", "1", "2", "3">>

(***************************************************************************)
(* C1                                                                      *)
(***************************************************************************)
\* C1: normalising an already normalised token changes nothing:
\* normalize_token(normalize_token(t)) = normalize_token(t) for every input.
C1_Idempotent == pc = "renormalized" => second = result

\* a token that the first pass padded has been normalised twice
C1_Witness ==
    /\ pc = "renormalized"
    /\ token = T_217x54
    /\ result = T_0217x0054
    /\ second = T_0217x0054

(***************************************************************************)
(* C2                                                                      *)
(***************************************************************************)
\* C2: a trimmed token with an x or X and no colon comes back as
\* pad(left, 4) + sep + pad(right, 4), left and right being the text before
\* and after the first x/X and sep that x/X in its own case; 217x54 gives
\* 0217x0054 and 0217x0054 stays as it is.
C2_XRule ==
    pc = "normalized" =>
        LET s == strip(token)
        IN  /\ ((Contains(s, "x") \/ Contains(s, "X")) /\ ~Contains(s, ":")) =>
                 LET i == FirstAt(s, {"x", "X"})
                 IN  result = pad_left_ignoring_letters(Before(s, i), 4)
                                 \o <<s[i]>>
                                 \o pad_left_ignoring_letters(After(s, i), 4)
            /\ token = T_217x54 => result = T_0217x0054
            /\ token = T_0217x0054 => result = T_0217x0054

\* an upper-case separator with both sides short of four digits
C2_Witness ==
    /\ pc = "normalized"
    /\ token = <<" ", "1", "X", "A">>
    /\ result = <<"0", "0", "0", "1", "X", "0", "0", "0", "0", "A">>

(***************************************************************************)
(* C3                                                                      *)
(***************************************************************************)
\* C3: a trimmed token with a colon, with or without an x/X, comes back as
\* pad(left, 5) + ":" + right, split at the first colon, the right side
\* character for character as it was; 217:abc gives 00217:abc.
C3_ColonRule ==
    pc = "normalized" =>
        LET s == strip(token)
        IN  /\ Contains(s, ":") =>
                 LET i == FirstAt(s, {":"})
                 IN  result = pad_left_ignoring_letters(Before(s, i), 5)
                                 \o <<":">> \o After(s, i)
            /\ token = T_217colon =>
                 result = <<"0", "0", "2", "1", "7", ":", "a", "b", "c">>

\* a token with an x before the colon and a digit after it
C3_Witness ==
    /\ pc = "normalized"
    /\ token = <<"1", "x", ":", "1">>
    /\ result = <<"0", "0", "0", "0", "1", "x", ":", "1">>

(***************************************************************************)
(* C4                                                                      *)
(***************************************************************************)
\* C4: pad_left_ignoring_letters(part, n) is part itself when part has at
\* least n digits, and otherwise n - digit_count zeros followed by part.
C4_Padding ==
    pc = "padded" =>
        LET dc == Cardinality({i \in DOMAIN token : token[i] \in Digits})
            k  == target - dc
        IN  IF dc >= target
            THEN padded = token
            ELSE /\ Len(padded) = k + Len(token)
                 /\ \A i \in 1..k : padded[i] = "0"
                 /\ SubSeq(padded, k + 1, Len(padded)) = token

\* a part that starts with a letter received its zeros in front of it
C4_Witness ==
    /\ pc = "padded"
    /\ token = <<"A", "1">>
    /\ target = 4
    /\ padded = <<"0", "0", "0", "A", "1">>

(***************************************************************************)
(* C5                                                                      *)
(***************************************************************************)
\* C5 as stated: normalize_token(AB1x99) is AB01x0099.
C5_Original ==
    (pc = "normalized" /\ token = T_AB1x99) =>
        result = <<"A", "B", "0", "1", "x", "0", "0", "9", "9">>

\* C5 amended: normalize_token(AB1x99) is 000AB1x0099; a left side made of a
\* letter prefix and a digit run of fewer than four digits gets its zeros at
\* the very front, before the letters, which stay next to their digits.
C5_LettersAmended ==
    pc = "normalized" =>
        LET s == strip(token)
        IN  /\ token = T_AB1x99 =>
                 result = <<"0", "0", "0", "A", "B", "1", "x", "0", "0", "9", "9">>
            /\ ((Contains(s, "x") \/ Contains(s, "X")) /\ ~Contains(s, ":")) =>
                 LET i    == FirstAt(s, {"x", "X"})
                     left == Before(s, i)
                     digs == {j \in DOMAIN left : left[j] \in Digits}
                     k    == 4 - Cardinality(digs)
                 IN  ( /\ left # <<>>
                       /\ IsLetter(left[1])
                       /\ digs # {}
                       /\ k > 0
                       /\ \A j \in DOMAIN left : j < Min(digs) => IsLetter(left[j])
                       /\ \A j \in DOMAIN left : j > Min(digs) => left[j] \in Digits )
                     => /\ \A j \in 1..k : result[j] = "0"
                        /\ SubSeq(result, k + 1, k + Len(left)) = left
                        /\ result[k + Len(left) + 1] = s[i]

\* the documented example has been normalised
C5_Witness ==
    /\ pc = "normalized"
    /\ token = T_AB1x99
    /\ result = <<"0", "0", "0", "A", "B", "1", "x", "0", "0", "9", "9">>

(***************************************************************************)
(* C6                                                                      *)
(***************************************************************************)
\* C6: a token with several x/X and no colon is split at the first one only;
\* the later ones stay inside the right part, which gets 4 minus the number
\* of all its digits zeros in front; 12x34x56 gives 0012x34x56.
C6_FirstXOnly ==
    pc = "normalized" =>
        LET s  == strip(token)
            xs == {i \in DOMAIN s : s[i] \in {"x", "X"}}
        IN  /\ (Cardinality(xs) >= 2 /\ ~Contains(s, ":")) =>
                 LET i     == Min(xs)
                     right == After(s, i)
                     dr    == Cardinality({j \in DOMAIN right : right[j] \in Digits})
                     kr    == IF dr >= 4 THEN 0 ELSE 4 - dr
                     n     == Len(result)
                 IN  /\ n >= Len(right) + kr + 1
                     /\ SubSeq(result, n - Len(right) + 1, n) = right
                     /\ \A j \in (n - Len(right) - kr + 1)..(n - Len(right)) :
                            result[j] = "0"
                     /\ result[n - Len(right) - kr] = s[i]
                     /\ ~Contains(SubSeq(result, 1, n - Len(right) - kr - 1), "x")
                     /\ ~Contains(SubSeq(result, 1, n - Len(right) - kr - 1), "X")
            /\ token = T_12x34x56 =>
                 result = <<"0", "0", "1", "2", "x", "3", "4", "x", "5", "6">>

\* the documented example, whose right part holds the second x
C6_Witness ==
    /\ pc = "normalized"
    /\ token = T_12x34x56
    /\ result = <<"0", "0", "1", "2", "x", "3", "4", "x", "5", "6">>

(***************************************************************************)
(* C7                                                                      *)
(***************************************************************************)
\* C7 as stated: a token with an x/X and no colon whose text before or after
\* the first x/X is empty comes back as the trimmed token, unchanged.
C7_Original ==
    pc = "normalized" =>
        LET s == strip(token)
        IN  ((Contains(s, "x") \/ Contains(s, "X")) /\ ~Contains(s, ":")) =>
                LET i == FirstAt(s, {"x", "X"})
                IN  (Before(s, i) = <<>> \/ After(s, i) = <<>>) => result = s

\* C7 amended: for such a token the x-rule applies all the same; the empty
\* side comes back as 0000, so x54 gives 0000x0054, 217x gives 0217x0000 and
\* x gives 0000x0000.
C7_EmptySideAmended ==
    pc = "normalized" =>
        LET s == strip(token)
        IN  /\ ((Contains(s, "x") \/ Contains(s, "X")) /\ ~Contains(s, ":")) =>
                 LET i == FirstAt(s, {"x", "X"})
                     j == FirstAt(result, {"x", "X"})
                 IN  /\ Before(s, i) = <<>> =>
                            Before(result, j) = <<"0", "0", "0", "0">>
                     /\ After(s, i) = <<>> =>
                            After(result, j) = <<"0", "0", "0", "0">>
                     /\ (Before(s, i) = <<>> \/ After(s, i) = <<>>) =>
                            (result # s /\ result[j] = s[i])
            /\ token = <<"x", "5", "4">> =>
                 result = <<"0", "0", "0", "0", "x", "0", "0", "5", "4">>
            /\ token = <<"2", "1", "7", "x">> =>
                 result = <<"0", "2", "1", "7", "x", "0", "0", "0", "0">>
            /\ token = <<"x">> =>
                 result = <<"0", "0", "0", "0", "x", "0", "0", "0", "0">>

\* the bare separator has been normalised
C7_Witness ==
    /\ pc = "normalized"
    /\ token = <<"x">>
    /\ result = <<"0", "0", "0", "0", "x", "0", "0", "0", "0">>

(***************************************************************************)
(* C8                                                                      *)
(***************************************************************************)
\* C8: a token without x, X and colon comes back as exactly the trimmed
\* token; ABC123 gives ABC123.
C8_Fallback ==
    pc = "normalized" =>
        /\ (~Contains(token, "x") /\ ~Contains(token, "X") /\ ~Contains(token, ":"))
               => IsTrimOf(result, token)
        /\ token = T_ABC123 => result = T_ABC123

\* a token with blanks around and inside, and a digit that is not padded
C8_Witness ==
    /\ pc = "normalized"
    /\ token = <<" ", "A", "1", " ">>
    /\ result = <<"A", "1">>

(***************************************************************************)
(* C9                                                                      *)
(***************************************************************************)
\* C9: an empty or whitespace-only input comes back as the empty string: no
\* rule is applied and no zero is added.
C9_Empty ==
    pc = "normalized" =>
        ((\A i \in DOMAIN token : token[i] \in Whitespace) => result = <<>>)

\* three blanks have been normalised to the empty string
C9_Witness ==
    /\ pc = "normalized"
    /\ token = <<" ", " ", " ">>
    /\ result = <<>>

(***************************************************************************)
(* C10                                                                     *)
(***************************************************************************)
\* C10: normalize_token(t) is the trimmed input with zero or more "0"
\* inserted and nothing else changed: the non-digit characters are the same
\* in the same order and no character of the trimmed input is lost.
C10_OnlyZerosInserted ==
    pc = "normalized" =>
        \E s \in {SubSeq(token, a, b) : a \in 1..(Len(token) + 1), b \in 0..Len(token)} :
            /\ IsTrimOf(s, token)
            /\ NonDigits(result) = NonDigits(s)
            /\ ZerosInserted(s, result)

\* zeros were inserted around an upper-case separator next to inner blanks
C10_Witness ==
    /\ pc = "normalized"
    /\ token = <<"1", " ", "X", "A">>
    /\ result = <<"0", "0", "0", "1", " ", "X", "0", "0", "0", "0", "A">>


(***************************************************************************)
(* pages/Sammenfletter.py: norm_cell and base_key                          *)
(***************************************************************************)
\* a missing cell (NaN / None), what pd.isna answers True for; no string is
\* equal to it, a string being a sequence of single characters
NA == <<"NaN">>

UpperCase == <<"A", "B", "C", "D", "E", "F", "G", "H", "I", "J", "K", "L", "M",
               "N", "O", "P", "Q", "R", "S", "T", "U", "V", "W", "X", "Y", "Z">>
LowerCase == <<"a", "b", "c", "d", "e", "f", "g", "h", "i", "j", "k", "l", "m",
               "n", "o", "p", "q", "r", "s", "t", "u", "v", "w", "x", "y", "z">>

Range(f) == {f[i] : i \in DOMAIN f}

\* what [a-z] matches
LowerLetters == Range(LowerCase)

\* what is left by [\W_]: the word characters without the underscore
AlphaNum == Range(LowerCase) \cup Range(UpperCase) \cup Digits

\* s.replace("\u00A0", " ")
replace_nbsp(s) == [i \in DOMAIN s |-> IF s[i] = NBSP THEN " " ELSE s[i]]

\* mutant: any decimals count as an artifact (\d+([.,]\d+)?)
fullmatch_float_any_decimals(s) ==
    \E n \in 1..Len(s) :
        /\ \A i \in 1..n : s[i] \in Digits
        /\ \/ n = Len(s)
           \/ /\ Len(s) >= n + 2
              /\ s[n + 1] \in {".", ","}
              /\ \A i \in (n + 2)..Len(s) : s[i] \in Digits

\* re.fullmatch(r"\d+([.,]0+)?", s)
fullmatch_float(s) ==
    \E n \in 1..Len(s) :
        /\ \A i \in 1..n : s[i] \in Digits
        /\ \/ n = Len(s)
           \/ /\ Len(s) >= n + 2
              /\ s[n + 1] \in {".", ","}
              /\ \A i \in (n + 2)..Len(s) : s[i] = "0"

\* s.lower()
lower(s) ==
    [i \in DOMAIN s |->
        IF \E j \in DOMAIN UpperCase : UpperCase[j] = s[i]
        THEN LowerCase[CHOOSE j \in DOMAIN UpperCase : UpperCase[j] = s[i]]
        ELSE s[i]]

\* mutant: the blanks survive the removal of punctuation
remove_punct_keep_ws(s) ==
    SelectSeq(s, LAMBDA c : c \in AlphaNum \cup Whitespace)

\* re.sub(r"[\W_]+", "", s, flags=re.UNICODE)
remove_punct(s) == SelectSeq(s, LAMBDA c : c \in AlphaNum)

\* re.sub(r"\s+", " ", s)
RECURSIVE collapse_ws(_)
collapse_ws(s) ==
    IF s = <<>>
    THEN <<>>
    ELSE IF s[1] \in Whitespace
    THEN LET rest == {i \in DOMAIN s : s[i] \notin Whitespace}
         IN  IF rest = {}
             THEN <<" ">>
             ELSE <<" ">> \o collapse_ws(SubSeq(s, Min(rest), Len(s)))
    ELSE <<s[1]>> \o collapse_ws(Tail(s))

norm_cell(v, o) ==
    IF v = NA
    THEN <<>>
    ELSE LET s0 == v
             s1 == IF o.norm_trim THEN replace_nbsp(strip(s0)) ELSE s0
             s2 == IF o.norm_fix_float /\ fullmatch_float(s1)
                   THEN re_split_first(s1, {".", ","})[1]
                   ELSE s1
             s3 == IF o.norm_lower THEN lower(s2) ELSE s2
             s4 == IF o.norm_remove_punct THEN remove_punct(s3) ELSE s3
             s5 == IF o.norm_collapse_ws THEN collapse_ws(s4) ELSE s4
         IN  s5

\* length of the longest prefix of s made of characters of class
RunLen(s, class) ==
    LET stops == {i \in DOMAIN s : s[i] \notin class}
    IN  IF stops = {} THEN Len(s) ELSE Min(stops) - 1

\* m = re.match(r"([a-z]+)?(\d+)?", s_norm), which always matches;
\* (m.group(1) or "") + (m.group(2) or "")
base_key(s_norm) ==
    LET p == RunLen(s_norm, LowerLetters)
        q == RunLen(SubSeq(s_norm, p + 1, Len(s_norm)), Digits)
    IN  SubSeq(s_norm, 1, p + q)

(***************************************************************************)
(* One cell is normalised to a key and the key reduced to its base key.    *)
(***************************************************************************)
\* longest enumerated cell text
MaxCellLen == 3

\* a zero, a non-zero digit, a letter in both cases, a decimal point, a
\* blank and a punctuation mark
CellAlphabet == {"0", "1", "a", "A", ".", " ", "-"}

CellSamples ==
    { NA,
      <<"2", "1", "7", ".", "0">>,
      <<"2", "1", "7", ",", "0">>,
      <<"2", "1", "7">>,
      <<"1", "2", ".", "5">>,
      <<"a", "1", ".", "0">>,
      <<" ", "2", "1", "7", ".", "0", "0", " ">>,
      <<"2", "1", "7", "x", "5", "4">>,
      <<"0", "2", "1", "7", "x", "0", "0", "5", "4">>,
      <<"2", "1", "7", ":", "a", "b", "c">>,
      <<"A", "B", "1", "2">>,
      <<"a", "b", "-", "1", "2">>,
      <<"a", "b", "1", "2", "c", "d", "3", "4">>,
      <<"a", "_", "1", NBSP, "\t", "b">>,
      <<NBSP, "a", NBSP>> }

Cells == UNION {[1..n -> CellAlphabet] : n \in 0..MaxCellLen} \cup CellSamples

\* the five normalisation toggles of a request, each on or off
Opts ==
    [norm_trim : BOOLEAN, norm_lower : BOOLEAN, norm_remove_punct : BOOLEAN,
     norm_collapse_ws : BOOLEAN, norm_fix_float : BOOLEAN]

InitCell ==
    /\ cell \in Cells
    /\ opts \in Opts
    /\ key = <<>>
    /\ bkey = <<>>
    /\ cpc = "start"
    /\ NormAtRest /\ TextAtRest /\ MergeAtRest /\ GuessAtRest
    /\ PagesAtRest

\* key = norm_cell(cell, ...)
NormCell ==
    /\ cpc = "start"
    /\ key' = norm_cell(cell, opts)
    /\ cpc' = "normed"
    /\ UNCHANGED <<cell, opts, bkey>>
    /\ UNCHANGED <<normVars, textVars, mergeVars, guessVars, pageVars>>

\* bkey = base_key(key)
BaseKey ==
    /\ cpc = "normed"
    /\ bkey' = base_key(key)
    /\ cpc' = "based"
    /\ UNCHANGED <<cell, opts, key>>
    /\ UNCHANGED <<normVars, textVars, mergeVars, guessVars, pageVars>>

NextCell == NormCell \/ BaseKey

SpecCell == InitCell /\ [][NextCell]_vars

(***************************************************************************)
(* C12                                                                     *)
(***************************************************************************)
\* C12: a merge key is the cell after the enabled cleaning steps and the
\* x-rule/colon-rule padding of the identifier normaliser, so that a padded
\* key is left as it is by normalize_token and the cells 217x54 and
\* 0217x0054 get the same key, 0217x0054.
C12_SharedNormalizer ==
    (cpc = "normed" /\ cell # NA) =>
        /\ normalize_token(key) = key
        /\ cell \in {T_217x54, T_0217x0054} => key = T_0217x0054

(***************************************************************************)
(* C15                                                                     *)
(***************************************************************************)
Letters == Range(LowerCase) \cup Range(UpperCase)

\* the first contiguous run of digits that occurs in k, possibly empty
FirstDigitRun(k) ==
    LET hits == {i \in DOMAIN k : k[i] \in Digits}
    IN  IF hits = {}
        THEN <<>>
        ELSE LET rest == SubSeq(k, Min(hits), Len(k))
             IN  SubSeq(rest, 1, RunLen(rest, Digits))

\* C15: under every combination of options, base_key(k) is the leading run
\* of letters of k followed by the first contiguous run of digits of k.
C15_BaseKeyDefinition ==
    cpc = "based" =>
        bkey = SubSeq(key, 1, RunLen(key, Letters)) \o FirstDigitRun(key)

(***************************************************************************)
(* C19                                                                     *)
(***************************************************************************)
\* digits, optionally followed by "." or "," and one or more zeros
PurelyNumeric(s) ==
    \E n \in 1..Len(s) :
        /\ \A i \in 1..n : s[i] \in Digits
        /\ \/ n = Len(s)
           \/ /\ Len(s) > n + 1
              /\ s[n + 1] \in {".", ","}
              /\ \A i \in (n + 2)..Len(s) : s[i] = "0"

\* the text as it reaches the trailing-float step
TextAtFloatStep(v, o) == IF o.norm_trim THEN replace_nbsp(strip(v)) ELSE v

T_217 == <<"2", "1", "7">>

\* C19: with fixTrailingFloat on, a purely numeric text is reduced to its
\* integer digits before the later steps, so 217.0, 217,0 and 217 get one
\* key; a text of another shape (12.5, a1.0) is not altered by the step.
C19_TrailingFloat ==
    (cpc = "normed" /\ cell # NA /\ opts.norm_fix_float) =>
        LET s   == TextAtFloatStep(cell, opts)
            off == [opts EXCEPT !.norm_fix_float = FALSE]
        IN  /\ PurelyNumeric(s) =>
                 /\ key = SubSeq(s, 1, RunLen(s, Digits))
                 /\ key = norm_cell(SubSeq(s, 1, RunLen(s, Digits)), opts)
            /\ ~PurelyNumeric(s) => key = norm_cell(cell, off)
            /\ cell \in { <<"2", "1", "7", ".", "0">>,
                          <<"2", "1", "7", ",", "0">>, T_217 } => key = T_217
            /\ (cell = <<"1", "2", ".", "5">> /\ ~opts.norm_remove_punct) =>
                 key = cell
            /\ (cell = <<"a", "1", ".", "0">> /\ ~opts.norm_remove_punct) =>
                 key = cell

\* a decimal comma with a zero was cut off although punctuation is kept
C19_Witness ==
    /\ cpc = "normed"
    /\ cell = <<"2", "1", "7", ",", "0">>
    /\ opts.norm_fix_float
    /\ ~opts.norm_remove_punct
    /\ key = T_217

(***************************************************************************)
(* pages/tekstnormalisering.py: the free-text batch of view()              *)
(***************************************************************************)
\* re.split(r"[,\s;]+", s): the pieces between the runs of separators, the
\* empty pieces at the ends included
RECURSIVE re_split_runs(_, _)
re_split_runs(s, seps) ==
    LET hits == {i \in DOMAIN s : s[i] \in seps}
    IN  IF hits = {}
        THEN <<s>>
        ELSE LET i     == Min(hits)
                 after == {j \in DOMAIN s : j > i /\ s[j] \notin seps}
             IN  <<SubSeq(s, 1, i - 1)>> \o
                 (IF after = {}
                  THEN << <<>> >>
                  ELSE re_split_runs(SubSeq(s, Min(after), Len(s)), seps))

\* what [,\s;] matches
TokenSeparators == {",", ";"} \cup Whitespace

split_tokens(text) ==
    LET raw == re_split_runs(strip(text), TokenSeparators)
    IN  SelectSeq(raw, LAMBDA x : x # <<>>)

\* "objektnummer = "
SARA_LABEL ==
    <<"o", "b", "j", "e", "k", "t", "n", "u", "m", "m", "e", "r", " ", "=", " ">>

\* ", ".join(parts)
RECURSIVE join_comma(_)
join_comma(parts) ==
    IF parts = <<>>
    THEN <<>>
    ELSE IF Len(parts) = 1
    THEN parts[1]
    ELSE parts[1] \o <<",", " ">> \o join_comma(Tail(parts))

\* mutant: the label is written even when no token is left
build_sara_query_always(normalized_list) ==
    LET normalized_clean == SelectSeq(normalized_list, LAMBDA n : strip(n) # <<>>)
    IN  SARA_LABEL \o join_comma(normalized_clean)

\* normalized_clean = [n for n in normalized if str(n).strip()]; the query
\* is written only if normalized_clean is not empty, else it stays ""
build_sara_query(normalized_list) ==
    LET normalized_clean == SelectSeq(normalized_list, LAMBDA n : strip(n) # <<>>)
    IN  IF normalized_clean # <<>>
        THEN SARA_LABEL \o join_comma(normalized_clean)
        ELSE <<>>

\* longest enumerated text
MaxTextLen == 4

\* a digit, the x separator, a letter, and the three kinds of separator
TextAlphabet == {"1", "x", "A", ",", ";", " "}

TextSamples ==
    { <<"2", "1", "7", "x", "5", "4", ",", " ", "1", ":", "2", ";",
        "A", "B", "C", "\n", "x">>,
      <<" ", ",", ";", "\t", ",", " ">> }

Texts == UNION {[1..n -> TextAlphabet] : n \in 0..MaxTextLen} \cup TextSamples

InitText ==
    /\ inp \in Texts
    /\ tokens = <<>>
    /\ normalized = <<>>
    /\ sara_query = <<>>
    /\ tpc = "start"
    /\ NormAtRest /\ CellAtRest /\ MergeAtRest /\ GuessAtRest
    /\ PagesAtRest

\* POST on the text tab
TextPost ==
    /\ tpc = "start"
    /\ LET toks == split_tokens(inp)
           norm == [i \in DOMAIN toks |-> normalize_token(toks[i])]
       IN  /\ tokens' = toks
           /\ normalized' = norm
           /\ sara_query' = build_sara_query(norm)
    /\ tpc' = "done"
    /\ UNCHANGED inp
    /\ UNCHANGED <<normVars, cellVars, mergeVars, guessVars, pageVars>>

NextText == TextPost

SpecText == InitText /\ [][NextText]_vars

(***************************************************************************)
(* C11                                                                     *)
(***************************************************************************)
\* the non-empty entries of a list, in order
NonEmpty(list) == SelectSeq(list, LAMBDA n : n # <<>>)

\* the entries of a list joined with ", "
RECURSIVE Joined(_)
Joined(list) ==
    IF list = <<>> THEN <<>>
    ELSE IF Tail(list) = <<>> THEN Head(list)
    ELSE Head(list) \o <<",", " ">> \o Joined(Tail(list))

RECURSIVE Concat(_)
Concat(list) == IF list = <<>> THEN <<>> ELSE Head(list) \o Concat(Tail(list))

\* toks are the maximal separator-free runs of text, in order
AreTokensOf(toks, text) ==
    LET IsSep(c) == c \in {",", ";"} \cup Whitespace
        starts == {i \in DOMAIN text :
                      ~IsSep(text[i]) /\ (i = 1 \/ IsSep(text[i - 1]))}
    IN  /\ Len(toks) = Cardinality(starts)
        /\ \A i \in DOMAIN toks :
               toks[i] # <<>> /\ \A j \in DOMAIN toks[i] : ~IsSep(toks[i][j])
        /\ Concat(toks) = SelectSeq(text, LAMBDA c : ~IsSep(c))

\* one normalised entry per input token, in input order
PerTokenOutput ==
    /\ AreTokensOf(tokens, inp)
    /\ Len(normalized) = Len(tokens)
    /\ \A i \in DOMAIN tokens : normalized[i] = normalize_token(tokens[i])

\* C11 as stated: for every input text the query is the label followed by
\* the non-empty normalised tokens joined with ", ".
C11_Original ==
    tpc = "done" =>
        /\ PerTokenOutput
        /\ sara_query = SARA_LABEL \o Joined(NonEmpty(normalized))

\* C11 amended: one normalised entry per input token in input order; when at
\* least one normalised token is non-empty the query is the label followed
\* by the non-empty normalised tokens joined with ", " in the same order, and
\* when there is none (a text without tokens) the query is the empty string.
C11_QueryAmended ==
    tpc = "done" =>
        /\ PerTokenOutput
        /\ NonEmpty(normalized) # <<>> =>
               sara_query = SARA_LABEL \o Joined(NonEmpty(normalized))
        /\ NonEmpty(normalized) = <<>> => sara_query = <<>>

\* two tokens between three kinds of separator were normalised and joined
C11_Witness ==
    /\ tpc = "done"
    /\ inp = <<"1", " ", ";", "A">>
    /\ normalized = << <<"1">>, <<"A">> >>
    /\ sara_query = SARA_LABEL \o <<"1", ",", " ", "A">>

(***************************************************************************)
(* pages/Sammenfletter.py: handle_excel_merge, mapping and resolution      *)
(***************************************************************************)
\* mutant: a later row overwrites the entry (d[k] = v)
dict_assign(d, k, v) ==
    [x \in DOMAIN d \cup {k} |-> IF x = k THEN v ELSE d[x]]

\* d.setdefault(k, v)
setdefault(d, k, v) ==
    IF k \in DOMAIN d
    THEN d
    ELSE [x \in DOMAIN d \cup {k} |-> IF x = k THEN v ELSE d[x]]

\* d.get(k, None), and what Series.map(d) gives for a key
dict_get(d, k) == IF k \in DOMAIN d THEN d[k] ELSE NA

\* the five normalisation toggles among the settings of a request
norm_opts(st) ==
    [norm_trim |-> st.norm_trim, norm_lower |-> st.norm_lower,
     norm_remove_punct |-> st.norm_remove_punct,
     norm_collapse_ws |-> st.norm_collapse_ws,
     norm_fix_float |-> st.norm_fix_float]

\* mutant: the label is not tested (if key:)
row_usable_key_only(k, title) == k # <<>>

\* if key and pd.notna(title)
row_usable(k, title) == k # <<>> /\ title # NA

\* one turn of the loop over df_export: both mappings after the row
build_row(full, base, row, st) ==
    IF row.key = NA
    THEN <<full, base>>
    ELSE LET k == norm_cell(row.key, norm_opts(st))
         IN  IF row_usable(k, row.title)
             THEN << setdefault(full, k, row.title),
                     IF st.use_base_key
                     THEN setdefault(base, base_key(k), row.title)
                     ELSE base >>
             ELSE <<full, base>>

\* normalized_keys = df_other[oth_key_col].apply(norm_cell ...)
normalized_keys(other, st) ==
    [i \in DOMAIN other |-> norm_cell(other[i], norm_opts(st))]

\* title_series = normalized_keys.map(mapping_full)
map_full(keys, full) == [i \in DOMAIN keys |-> dict_get(full, keys[i])]

\* mutant: the base mapping is asked for every row, matched or not
base_fallback_all(series, keys, base, st) ==
    IF st.use_base_key
    THEN [i \in DOMAIN series |->
             IF dict_get(base, base_key(keys[i])) # NA
             THEN dict_get(base, base_key(keys[i]))
             ELSE series[i]]
    ELSE series

\* if use_base_key: the rows of missing_mask get mapping_base.get(base_key(x))
base_fallback(series, keys, base, st) ==
    IF st.use_base_key
    THEN [i \in DOMAIN series |->
             IF series[i] = NA
             THEN dict_get(base, base_key(keys[i]))
             ELSE series[i]]
    ELSE series

\* mutant: the rows without a label are counted (isna)
count_isna(series) == Cardinality({i \in DOMAIN series : series[i] = NA})

\* result["Titel (fra export)"].notna().sum()
count_notna(series) == Cardinality({i \in DOMAIN series : series[i] # NA})

\* most rows of the export table
MaxRows == 2
\* most rows of the other table
MaxOther == 2

\* key cells: a missing one, a plain key, one that differs from it in case
\* and punctuation, and one that is punctuation only
KeyCells == {NA, <<"a", "1">>, <<"A", "1", "-">>, <<"-">>}

DigitChar == <<"1", "2", "3", "4", "5", "6", "7", "8", "9">>

\* the label of the i-th export row when it has one: every row its own
TitleOf(i) == <<"T", DigitChar[i]>>

\* export tables: every row has a key cell and its own label or none
ExportTables ==
    UNION { { [i \in 1..n |->
                 [key |-> ks[i],
                  title |-> IF i \in has THEN TitleOf(i) ELSE NA]] :
              ks \in [1..n -> KeyCells], has \in SUBSET (1..n) } :
            n \in 1..MaxRows }

\* export tables whose rows all have a key cell and a label
LabelledExportTables ==
    UNION { { [i \in 1..n |-> [key |-> ks[i], title |-> TitleOf(i)]] :
              ks \in [1..n -> KeyCells \ {NA}] } :
            n \in 1..MaxRows }

OtherTables == UNION {[1..n -> KeyCells] : n \in 1..MaxOther}

\* the settings of a request: case folding, punctuation stripping and the
\* base-key fallback on or off; the key cells hold no blank and no decimal,
\* so the other three toggles, left on, cannot change their keys
MergeSettings ==
    [norm_trim : {TRUE}, norm_lower : BOOLEAN, norm_remove_punct : BOOLEAN,
     norm_collapse_ws : {TRUE}, norm_fix_float : {TRUE}, use_base_key : BOOLEAN]

\* a merge request: the rows without key cell or label, which the loop
\* over df_export passes over, are left to the specification of that loop
InitMerge ==
    /\ settings \in MergeSettings
    /\ df_export \in LabelledExportTables
    /\ df_other \in OtherTables
    /\ mapping_full = <<>>
    /\ mapping_base = <<>>
    /\ title_series = <<>>
    /\ total = 0
    /\ matched = 0
    /\ unmatched = 0
    /\ row_i = 1
    /\ mpc = "build"
    /\ NormAtRest /\ CellAtRest /\ TextAtRest /\ GuessAtRest
    /\ PagesAtRest

\* one turn of the loop that fills mapping_full and mapping_base
BuildRow ==
    /\ mpc = "build"
    /\ LET after == build_row(mapping_full, mapping_base, df_export[row_i], settings)
       IN  /\ mapping_full' = after[1]
           /\ mapping_base' = after[2]
    /\ row_i' = row_i + 1
    /\ mpc' = IF row_i = Len(df_export) THEN "map" ELSE "build"
    /\ UNCHANGED <<settings, df_export, df_other, title_series, total,
                   matched, unmatched>>
    /\ UNCHANGED <<normVars, cellVars, textVars, guessVars, pageVars>>

\* the exact tier: title_series = normalized_keys.map(mapping_full)
MapKeys ==
    /\ mpc = "map"
    /\ title_series' = map_full(normalized_keys(df_other, settings), mapping_full)
    /\ mpc' = "fallback"
    /\ UNCHANGED <<settings, df_export, df_other, mapping_full, mapping_base,
                   total, matched, unmatched, row_i>>
    /\ UNCHANGED <<normVars, cellVars, textVars, guessVars, pageVars>>

\* the base-key tier for the rows still without a label
Fallback ==
    /\ mpc = "fallback"
    /\ title_series' = base_fallback(title_series,
                                     normalized_keys(df_other, settings),
                                     mapping_base, settings)
    /\ mpc' = "stats"
    /\ UNCHANGED <<settings, df_export, df_other, mapping_full, mapping_base,
                   total, matched, unmatched, row_i>>
    /\ UNCHANGED <<normVars, cellVars, textVars, guessVars, pageVars>>

\* total, matched, unmatched
Stats ==
    /\ mpc = "stats"
    /\ total' = Len(df_other)
    /\ matched' = count_notna(title_series)
    /\ unmatched' = Len(df_other) - count_notna(title_series)
    /\ mpc' = "done"
    /\ UNCHANGED <<settings, df_export, df_other, mapping_full, mapping_base,
                   title_series, row_i>>
    /\ UNCHANGED <<normVars, cellVars, textVars, guessVars, pageVars>>

NextMerge == BuildRow \/ MapKeys \/ Fallback \/ Stats

SpecMerge == InitMerge /\ [][NextMerge]_vars

(***************************************************************************)
(* The loop over df_export alone, over export tables of every kind of row; *)
(* the other table, which the loop does not read, is one fixed row.        *)
(***************************************************************************)
InitBuild ==
    /\ settings \in MergeSettings
    /\ df_export \in ExportTables
    /\ df_other = << <<"a", "1">> >>
    /\ mapping_full = <<>>
    /\ mapping_base = <<>>
    /\ title_series = <<>>
    /\ total = 0
    /\ matched = 0
    /\ unmatched = 0
    /\ row_i = 1
    /\ mpc = "build"
    /\ NormAtRest /\ CellAtRest /\ TextAtRest /\ GuessAtRest
    /\ PagesAtRest

NextBuild == BuildRow

SpecBuild == InitBuild /\ [][NextBuild]_vars

(***************************************************************************)
(* Helpers of the merge properties.                                        *)
(***************************************************************************)
\* the export rows the loop has gone through
ProcessedRows == 1..(row_i - 1)

\* the normalised key of the i-th export row ("" for a missing cell)
KeyOfRow(i) == norm_cell(df_export[i].key, norm_opts(settings))

\* the i-th export row has a key cell, a non-empty key and a label
UsableRow(i) ==
    /\ df_export[i].key # NA
    /\ KeyOfRow(i) # <<>>
    /\ df_export[i].title # NA

\* the processed usable rows whose key is k / whose base key is b
RowsWithKey(k) == {i \in ProcessedRows : UsableRow(i) /\ KeyOfRow(i) = k}
RowsWithBase(b) ==
    {i \in ProcessedRows : UsableRow(i) /\ base_key(KeyOfRow(i)) = b}

\* the normalised key of the i-th row of the other table
KeyOfOther(i) == norm_cell(df_other[i], norm_opts(settings))

(***************************************************************************)
(* C13                                                                     *)
(***************************************************************************)
\* C13: at every point of the construction full[k] is the label of the first
\* row in table order, among the rows with a non-empty key and a label, whose
\* key is k, and base[b] the label of the first such row whose base key is
\* b; a later row with the same key changes nothing.
C13_FirstWriteWins ==
    mpc # "rest" =>
        /\ DOMAIN mapping_full = {k \in {KeyOfRow(i) : i \in ProcessedRows} :
                                     RowsWithKey(k) # {}}
        /\ \A k \in DOMAIN mapping_full :
               mapping_full[k] = df_export[Min(RowsWithKey(k))].title
        /\ settings.use_base_key =>
               /\ DOMAIN mapping_base =
                      {b \in {base_key(KeyOfRow(i)) : i \in ProcessedRows} :
                          RowsWithBase(b) # {}}
               /\ \A b \in DOMAIN mapping_base :
                      mapping_base[b] = df_export[Min(RowsWithBase(b))].title

\* two rows with labels came to the same key and the first one's stayed
C13_Witness ==
    /\ mpc = "map"
    /\ Len(df_export) = 2
    /\ UsableRow(1) /\ UsableRow(2)
    /\ df_export[1].key # df_export[2].key
    /\ KeyOfRow(1) = KeyOfRow(2)
    /\ mapping_full[KeyOfRow(2)] = TitleOf(1)

(***************************************************************************)
(* C14                                                                     *)
(***************************************************************************)
\* C14: a row of the other table with key k gets full[k] when k is in the
\* full mapping, whatever the base mapping holds; otherwise, with the
\* fallback on, base[base_key(k)] when present; otherwise no label.
C14_TwoTier ==
    mpc \in {"stats", "done"} =>
        \A i \in DOMAIN df_other :
            LET k == KeyOfOther(i)
            IN  title_series[i] =
                    IF k \in DOMAIN mapping_full
                    THEN mapping_full[k]
                    ELSE IF settings.use_base_key
                            /\ base_key(k) \in DOMAIN mapping_base
                    THEN mapping_base[base_key(k)]
                    ELSE NA

\* a row matched exactly although the base mapping holds another label
C14_Witness ==
    /\ mpc = "done"
    /\ settings.use_base_key
    /\ KeyOfOther(1) \in DOMAIN mapping_full
    /\ base_key(KeyOfOther(1)) \in DOMAIN mapping_base
    /\ mapping_base[base_key(KeyOfOther(1))] # mapping_full[KeyOfOther(1)]
    /\ title_series[1] = mapping_full[KeyOfOther(1)]

(***************************************************************************)
(* C16                                                                     *)
(***************************************************************************)
\* C16: an export row without key cell, with an empty key or without label
\* adds nothing to either mapping and does not keep a later valid row with
\* the same key from supplying the entry.
C16_SkipsUnusable ==
    mpc # "rest" =>
        /\ <<>> \notin DOMAIN mapping_full
        /\ \A k \in DOMAIN mapping_full : mapping_full[k] # NA
        /\ \A b \in DOMAIN mapping_base : mapping_base[b] # NA
        /\ \A i \in ProcessedRows :
               ~UsableRow(i) =>
                   LET k == KeyOfRow(i)
                       b == base_key(k)
                   IN  /\ IF RowsWithKey(k) = {}
                          THEN k \notin DOMAIN mapping_full
                          ELSE mapping_full[k] =
                                   df_export[Min(RowsWithKey(k))].title
                       /\ IF RowsWithBase(b) = {} \/ ~settings.use_base_key
                          THEN b \notin DOMAIN mapping_base
                          ELSE mapping_base[b] =
                                   df_export[Min(RowsWithBase(b))].title

\* a row without label was passed over and the next row gave the entry
C16_Witness ==
    /\ mpc = "map"
    /\ Len(df_export) = 2
    /\ df_export[1].key = <<"a", "1">> /\ df_export[1].title = NA
    /\ df_export[2].key = <<"a", "1">> /\ df_export[2].title = TitleOf(2)
    /\ mapping_full[KeyOfRow(1)] = TitleOf(2)

(***************************************************************************)
(* C17                                                                     *)
(***************************************************************************)
\* C17: a row of the other table without key cell or with an empty key
\* never gets a label and counts as unmatched, whatever the export table
\* and the settings, the base-key fallback included.
C17_EmptyKeyUnmatched ==
    mpc = "done" =>
        /\ \A i \in DOMAIN df_other :
               KeyOfOther(i) = <<>> => title_series[i] = NA
        /\ unmatched >= Cardinality({i \in DOMAIN df_other : KeyOfOther(i) = <<>>})

(***************************************************************************)
(* C18                                                                     *)
(***************************************************************************)
\* C18: total is the number of rows of the other table, matched the number
\* of rows with a label from either tier, unmatched the rest.
C18_Counts ==
    mpc = "done" =>
        /\ total = Len(df_other)
        /\ matched = Cardinality({i \in DOMAIN df_other : title_series[i] # NA})
        /\ matched = Cardinality({i \in DOMAIN df_other :
                         \/ KeyOfOther(i) \in DOMAIN mapping_full
                         \/ /\ settings.use_base_key
                            /\ base_key(KeyOfOther(i)) \in DOMAIN mapping_base})
        /\ unmatched = total - matched
        /\ matched + unmatched = total
        /\ 0 <= matched /\ matched <= total

\* two rows, one matched by the base-key tier and one not matched
C18_Witness ==
    /\ mpc = "done"
    /\ total = 2 /\ matched = 1 /\ unmatched = 1
    /\ \E i \in DOMAIN df_other :
           /\ title_series[i] # NA
           /\ KeyOfOther(i) \notin DOMAIN mapping_full

(***************************************************************************)
(* The column guess of the merger: guess_key_col and guess_title_col over  *)
(* the headers of the export table, then the column choice of the form.    *)
(* A header is a sequence of characters; pandas gives the columns of one   *)
(* table distinct headers.                                                 *)
(***************************************************************************)

\* re.search(p, s, flags=re.I) for a pattern p of plain lower-case letters
re_search_i(p, s) ==
    \E i \in 1..Len(s) :
        /\ i + Len(p) - 1 <= Len(s)
        /\ lower(SubSeq(s, i, i + Len(p) - 1)) = p

\* r"objekt|object|obj"
KeyPatterns ==
    { <<"o", "b", "j", "e", "k", "t">>, <<"o", "b", "j", "e", "c", "t">>,
      <<"o", "b", "j">> }

\* r"titel|title|navn|name"
TitlePatterns ==
    { <<"t", "i", "t", "e", "l">>, <<"t", "i", "t", "l", "e">>,
      <<"n", "a", "v", "n">>, <<"n", "a", "m", "e">> }

\* [c for c in df.columns if re.search(pattern, str(c), flags=re.I)]
matching_cols(cols, pats) ==
    SelectSeq(cols, LAMBDA c : \E p \in pats : re_search_i(p, c))

\* cols[0] if cols else df.columns[0]
guess_key_col(cols) ==
    LET found == matching_cols(cols, KeyPatterns)
    IN  IF found # <<>> THEN found[1] ELSE cols[1]

\* mutant: without a match the first column is taken
guess_title_col_first(cols) ==
    LET found == matching_cols(cols, TitlePatterns)
    IN  IF found # <<>> THEN found[1] ELSE cols[1]

\* cols[0] if cols else (df.columns[1] if len(df.columns) > 1
\*                       else df.columns[0])
guess_title_col(cols) ==
    LET found == matching_cols(cols, TitlePatterns)
    IN  IF found # <<>>
        THEN found[1]
        ELSE IF Len(cols) > 1 THEN cols[2] ELSE cols[1]

\* most columns of a table
MaxCols == 2

H_ObjektNr == <<"O", "b", "j", "e", "k", "t", "N", "r">>
H_Titel == <<"T", "i", "t", "e", "l">>

\* headers: matching one pattern, both, or none, in either case of letter
Headers ==
    { H_ObjektNr, H_Titel,
      <<"O", "B", "J">>, <<"m", "y", "O", "b", "j", "e", "c", "t">>,
      <<"N", "A", "M", "E">>, <<"n", "a", "v", "n">>,
      <<"S", "u", "b", "t", "i", "t", "l", "e">>,
      <<"O", "b", "j", "N", "a", "m", "e">>,
      <<"I", "d">>, <<"N", "r">>, <<"o", "b">>, <<"t", "i", "t", "e">> }

Injective(s) == \A i, j \in DOMAIN s : s[i] = s[j] => i = j

\* the column lists of a table that is not empty
ColumnLists ==
    UNION { {s \in [1..n -> Headers] : Injective(s)} : n \in 1..MaxCols }

\* no value for the field in the form
NoField == <<"None">>

InitGuess ==
    /\ columns \in ColumnLists
    /\ exp_key_col = <<>>
    /\ exp_title_col = <<>>
    /\ gpc = "key"
    /\ NormAtRest /\ CellAtRest /\ TextAtRest /\ MergeAtRest
    /\ PagesAtRest

\* exp_key_col = guess_key_col(df_export)
GuessKey ==
    /\ gpc = "key"
    /\ exp_key_col' = guess_key_col(columns)
    /\ gpc' = "title"
    /\ UNCHANGED <<columns, exp_title_col>>
    /\ UNCHANGED <<normVars, cellVars, textVars, mergeVars, pageVars>>

\* exp_title_col = guess_title_col(df_export)
GuessTitle ==
    /\ gpc = "title"
    /\ exp_title_col' = guess_title_col(columns)
    /\ gpc' = "guessed"
    /\ UNCHANGED <<columns, exp_key_col>>
    /\ UNCHANGED <<normVars, cellVars, textVars, mergeVars, pageVars>>

\* request.form.get('exp_key_col', exp_key_col) and the same for the title:
\* a column named in the form replaces the guess
FormChoice ==
    /\ gpc = "guessed"
    /\ \E k, t \in {columns[i] : i \in DOMAIN columns} \cup {NoField} :
           /\ exp_key_col' = IF k = NoField THEN exp_key_col ELSE k
           /\ exp_title_col' = IF t = NoField THEN exp_title_col ELSE t
    /\ gpc' = "chosen"
    /\ UNCHANGED columns
    /\ UNCHANGED <<normVars, cellVars, textVars, mergeVars, pageVars>>

NextGuess == GuessKey \/ GuessTitle \/ FormChoice

SpecGuess == InitGuess /\ [][NextGuess]_vars

(***************************************************************************)
(* C20                                                                     *)
(***************************************************************************)
\* the header h holds one of the words, whatever the case of its letters
HoldsWord(h, words) ==
    \E w \in words : \E i \in 1..Len(h) :
        /\ i + Len(w) - 1 <= Len(h)
        /\ \A j \in 1..Len(w) :
               \/ h[i + j - 1] = w[j]
               \/ \E u \in DOMAIN UpperCase :
                      UpperCase[u] = h[i + j - 1] /\ LowerCase[u] = w[j]

\* the first column in table order whose header holds one of the words, or
\* the column at position rest when there is none
FirstHolding(words, rest) ==
    IF \E i \in DOMAIN columns : HoldsWord(columns[i], words)
    THEN columns[Min({i \in DOMAIN columns : HoldsWord(columns[i], words)})]
    ELSE columns[rest]

\* C20: the guessed key column is the first column whose header holds
\* objekt, object or obj in any case, else the first column; the guessed
\* label column is the first whose header holds titel, title, navn or name,
\* else the second column, else (one column) the first; for the headers
\* ObjektNr, Titel the guesses are ObjektNr and Titel.
C20_ColumnGuess ==
    /\ gpc \in {"title", "guessed"} =>
           exp_key_col = FirstHolding(KeyPatterns, 1)
    /\ gpc = "guessed" =>
           /\ exp_title_col =
                  FirstHolding(TitlePatterns, IF Len(columns) > 1 THEN 2 ELSE 1)
           /\ columns = <<H_ObjektNr, H_Titel>> =>
                  exp_key_col = H_ObjektNr /\ exp_title_col = H_Titel

\* the two guesses were made for the headers ObjektNr, Titel
C20_Witness ==
    /\ gpc = "guessed"
    /\ columns = <<H_ObjektNr, H_Titel>>
    /\ exp_key_col = H_ObjektNr
    /\ exp_title_col = H_Titel

(***************************************************************************)
(* C23                                                                     *)
(***************************************************************************)
\* the rows of the other table that got their label from the base mapping
ByFallback ==
    {i \in DOMAIN df_other :
        KeyOfOther(i) \notin DOMAIN mapping_full /\ title_series[i] # NA}

\* C23: with the fallback on, a row gets a label from the fallback tier only
\* if its base key is not empty and is the base key of a labelled export
\* row; two keys whose base keys are both empty are never joined.
C23_NoEmptyBaseKeyMatch ==
    mpc = "done" =>
        \A i \in ByFallback :
            /\ base_key(KeyOfOther(i)) # <<>>
            /\ \E j \in DOMAIN df_export :
                   base_key(KeyOfRow(j)) = base_key(KeyOfOther(i))

(***************************************************************************)
(* C27                                                                     *)
(***************************************************************************)
\* a letter or a digit
LetterOrDigit(c) == c \in Letters \/ c \in Digits

\* C27: with removePunctuation on, the key norm_cell returns holds letters
\* and digits only, whatever the cell and the other toggles, and turning
\* collapseWhitespace on or off gives the same key.
C27_OnlyLettersDigits ==
    (cpc = "normed" /\ opts.norm_remove_punct) =>
        /\ \A i \in DOMAIN key : LetterOrDigit(key[i])
        /\ collapse_ws(key) = key
        /\ key = norm_cell(cell, [opts EXCEPT !.norm_collapse_ws = ~@])

\* a cell with blanks, an underscore and a no-break space lost them all
C27_Witness ==
    /\ cpc = "normed"
    /\ opts.norm_remove_punct /\ ~opts.norm_trim /\ ~opts.norm_lower
    /\ cell = <<"a", "_", "1", NBSP, "\t", "b">>
    /\ key = <<"a", "1", "b">>

(***************************************************************************)
(* The token stores behind the downloads of the merger (_FILE_STORE) and   *)
(* of the normaliser page (_PAYLOAD_STORE).  A token is a number; 0 stands *)
(* for a request without token (missing or empty parameter).  The 192      *)
(* random bits of secrets.token_urlsafe(24) are taken never to repeat:     *)
(* issued records, for every token handed out, the store it was made for.  *)
(***************************************************************************)
\* most tokens handed out
MaxTokens == 3

StoreTokens == 1..MaxTokens

\* request.args.get('token') / request.form.get('payload_token') without value
NoToken == 0

\* the contents of a stored spreadsheet
Data == {"xlsx1", "xlsx2"}

\* no data (None), and an answer without attachment
None == "None"

\* mutant: a token may be one that was handed out before
token_urlsafe_any(iss) == StoreTokens

\* secrets.token_urlsafe(24): the tokens it can return, given those handed
\* out so far
token_urlsafe(iss) == StoreTokens \ DOMAIN iss

\* mutant: the entry is read and left in the store (dict.get)
pop_keeps(store, tok) ==
    [data |-> IF tok \in DOMAIN store THEN store[tok] ELSE None,
     store |-> store]

\* _FILE_STORE.pop(token, None) / _PAYLOAD_STORE.pop(token, None):
\* what is popped, and the store afterwards
pop(store, tok) ==
    [data |-> IF tok \in DOMAIN store THEN store[tok] ELSE None,
     store |-> [x \in DOMAIN store \ {tok} |-> store[x]]]

\* mutant: a token that is not in the store empties the store
download_clears(store, tok) ==
    IF tok = NoToken
    THEN [status |-> 400, body |-> None, store |-> store]
    ELSE LET p == pop(store, tok)
         IN  IF p.data = None
             THEN [status |-> 410, body |-> None, store |-> <<>>]
             ELSE [status |-> 200, body |-> p.data, store |-> p.store]

\* download(): the answer and the store afterwards
download(store, tok) ==
    IF tok = NoToken
    THEN [status |-> 400, body |-> None, store |-> store]
    ELSE LET p == pop(store, tok)
         IN  IF p.data = None
             THEN [status |-> 410, body |-> None, store |-> store]
             ELSE [status |-> 200, body |-> p.data, store |-> p.store]

InitStore ==
    /\ FILE_STORE = <<>>
    /\ PAYLOAD_STORE = <<>>
    /\ issued = <<>>
    /\ last = [op |-> "none", token |-> NoToken, status |-> 0, body |-> None]
    /\ CoreAtRest /\ ConcAtRest /\ SheetAtRest /\ ImgAtRest /\ ThumbAtRest

\* file_token = _store_file(buffer.getvalue()) at the end of a merge
StoreFile ==
    /\ \E d \in Data, tok \in token_urlsafe(issued) :
           /\ FILE_STORE' = dict_assign(FILE_STORE, tok, d)
           /\ issued' = dict_assign(issued, tok, "file")
           /\ last' = [op |-> "store_file", token |-> tok, status |-> 200,
                       body |-> None]
    /\ UNCHANGED PAYLOAD_STORE
    /\ UNCHANGED <<normVars, cellVars, textVars, mergeVars, guessVars>>
    /\ UNCHANGED <<concVars, sheetVars, imgVars, thumbVars>>

\* payload_token = _store_payload(buffer.getvalue()) of the spreadsheet tab
StorePayload ==
    /\ \E d \in Data, tok \in token_urlsafe(issued) :
           /\ PAYLOAD_STORE' = dict_assign(PAYLOAD_STORE, tok, d)
           /\ issued' = dict_assign(issued, tok, "payload")
           /\ last' = [op |-> "store_payload", token |-> tok, status |-> 200,
                       body |-> None]
    /\ UNCHANGED FILE_STORE
    /\ UNCHANGED <<normVars, cellVars, textVars, mergeVars, guessVars>>
    /\ UNCHANGED <<concVars, sheetVars, imgVars, thumbVars>>

\* GET /sammenfletter/download?token=...
DownloadFile ==
    /\ \E tok \in StoreTokens \cup {NoToken} :
           LET r == download(FILE_STORE, tok)
           IN  /\ FILE_STORE' = r.store
               /\ last' = [op |-> "download_file", token |-> tok,
                           status |-> r.status, body |-> r.body]
    /\ UNCHANGED <<PAYLOAD_STORE, issued>>
    /\ UNCHANGED <<normVars, cellVars, textVars, mergeVars, guessVars>>
    /\ UNCHANGED <<concVars, sheetVars, imgVars, thumbVars>>

\* POST /tekstnormalisering/download with payload_token
DownloadPayload ==
    /\ \E tok \in StoreTokens \cup {NoToken} :
           LET r == download(PAYLOAD_STORE, tok)
           IN  /\ PAYLOAD_STORE' = r.store
               /\ last' = [op |-> "download_payload", token |-> tok,
                           status |-> r.status, body |-> r.body]
    /\ UNCHANGED <<FILE_STORE, issued>>
    /\ UNCHANGED <<normVars, cellVars, textVars, mergeVars, guessVars>>
    /\ UNCHANGED <<concVars, sheetVars, imgVars, thumbVars>>

NextStore == StoreFile \/ StorePayload \/ DownloadFile \/ DownloadPayload

SpecStore == InitStore /\ [][NextStore]_vars

(***************************************************************************)
(* C22                                                                     *)
(***************************************************************************)
\* the step is a download from the store named op that presents t
Presents(op, t) == last'.op = op /\ last'.token = t

\* one step seen from the entry of token t in a store: before and after are
\* the store before and after the step, op the download of that store, kind
\* the store's name in issued
OneShot(before, after, op, kind, t) ==
    /\ (t \in DOMAIN before /\ Presents(op, t)) =>
           /\ last'.status = 200
           /\ last'.body = before[t]
           /\ t \notin DOMAIN after
    /\ (t \in DOMAIN before /\ ~Presents(op, t)) =>
           t \in DOMAIN after /\ after[t] = before[t]
    /\ (t \in DOMAIN issued /\ issued[t] = kind /\ t \notin DOMAIN before) =>
           /\ t \notin DOMAIN after
           /\ Presents(op, t) => last'.status = 410 /\ last'.body = None

\* C22: in both stores the first download that presents a stored token gets
\* the stored result and removes the entry at that moment; no other upload
\* or download removes or changes the entry; once removed the entry never
\* comes back and every later download presenting the token answers 410.
C22_OneShotTokens ==
    [][\A t \in StoreTokens :
           /\ OneShot(FILE_STORE, FILE_STORE', "download_file", "file", t)
           /\ OneShot(PAYLOAD_STORE, PAYLOAD_STORE', "download_payload",
                      "payload", t)]_vars

\* a second download presenting a token already used was answered 410
C22_Witness ==
    /\ last.op = "download_file"
    /\ last.token \in DOMAIN issued
    /\ issued[last.token] = "file"
    /\ last.status = 410
    /\ \E t \in DOMAIN FILE_STORE : t # last.token

(***************************************************************************)
(* C24                                                                     *)
(***************************************************************************)
\* C24: a download without token answers 400, a download with a token that
\* is not in the store answers 410, and both leave every entry of both
\* stores as it was.
C24_FailedDownloadFrame ==
    [][/\ last'.op = "download_file" =>
              /\ last'.token = NoToken => last'.status = 400
              /\ (last'.token # NoToken /\ last'.token \notin DOMAIN FILE_STORE)
                     => last'.status = 410
              /\ last'.status \in {400, 410} =>
                     FILE_STORE' = FILE_STORE /\ PAYLOAD_STORE' = PAYLOAD_STORE
       /\ last'.op = "download_payload" =>
              /\ last'.token = NoToken => last'.status = 400
              /\ (last'.token # NoToken
                  /\ last'.token \notin DOMAIN PAYLOAD_STORE)
                     => last'.status = 410
              /\ last'.status \in {400, 410} =>
                     FILE_STORE' = FILE_STORE /\ PAYLOAD_STORE' = PAYLOAD_STORE
      ]_vars

\* a download with an unknown token was refused while both stores hold
\* an entry
C24_Witness ==
    /\ last.op = "download_payload"
    /\ last.token # NoToken
    /\ last.status = 410
    /\ FILE_STORE # <<>> /\ PAYLOAD_STORE # <<>>

(***************************************************************************)
(* Merge requests in flight at the same time.  mapping_full, mapping_base, *)
(* title_series and the counts are local variables of handle_excel_merge,  *)
(* one set per call; _FILE_STORE is the one object the calls share.  The   *)
(* steps of the requests interleave in every order.                        *)
(***************************************************************************)
\* the requests in flight
Requests == {1, 2}

\* most rows of the export table of a request in flight
MaxConcRows == 1

ConcCells == { <<"a", "1">>, <<"A", "1", "-">> }

\* the label of row i of the export table of request r
TitleOfReq(r, i) == <<"T", DigitChar[r], DigitChar[i]>>

ConcExportTables(r) ==
    UNION { { [i \in 1..n |-> [key |-> ks[i], title |-> TitleOfReq(r, i)]] :
              ks \in [1..n -> ConcCells] } :
            n \in 1..MaxConcRows }

\* the other table of a request in flight has one row
ConcOtherTables == [{1} -> ConcCells]

\* lower-case on, punctuation kept; the fallback on or off
ConcSettings ==
    { [norm_trim |-> TRUE, norm_lower |-> TRUE, norm_remove_punct |-> FALSE,
       norm_collapse_ws |-> TRUE, norm_fix_float |-> TRUE,
       use_base_key |-> u] : u \in BOOLEAN }

\* the local variables of one call at its start
new_request(st, exp, oth) ==
    [settings |-> st, df_export |-> exp, df_other |-> oth,
     mapping_full |-> <<>>, mapping_base |-> <<>>, title_series |-> <<>>,
     total |-> 0, matched |-> 0, unmatched |-> 0, row_i |-> 1,
     mpc |-> "build", file_token |-> NoToken]

\* what is written to the spreadsheet of the result
result_file(q) ==
    [titles |-> q.title_series, total |-> q.total, matched |-> q.matched,
     unmatched |-> q.unmatched]

InitConc ==
    /\ reqs \in { [r \in Requests |-> new_request(st[r], exp[r], oth[r])] :
                  st \in [Requests -> ConcSettings],
                  exp \in { e \in [Requests ->
                                     UNION {ConcExportTables(r) :
                                            r \in Requests}] :
                            \A r \in Requests : e[r] \in ConcExportTables(r) },
                  oth \in [Requests -> ConcOtherTables] }
    /\ FILE_STORE = <<>>
    /\ PAYLOAD_STORE = <<>>
    /\ issued = <<>>
    /\ last = [op |-> "none", token |-> NoToken, status |-> 0, body |-> None]
    /\ CoreAtRest /\ SheetAtRest /\ ImgAtRest /\ ThumbAtRest

\* one turn of the loop over df_export of request r
ConcBuildRow(r) ==
    /\ reqs[r].mpc = "build"
    /\ LET q == reqs[r]
           b == build_row(q.mapping_full, q.mapping_base,
                          q.df_export[q.row_i], q.settings)
       IN  reqs' = [reqs EXCEPT ![r] =
                       [q EXCEPT !.mapping_full = b[1],
                                 !.mapping_base = b[2],
                                 !.row_i = q.row_i + 1,
                                 !.mpc = IF q.row_i = Len(q.df_export)
                                         THEN "map" ELSE "build"]]
    /\ UNCHANGED <<storeVars, sheetVars, imgVars, thumbVars>>
    /\ UNCHANGED <<normVars, cellVars, textVars, mergeVars, guessVars>>

\* title_series = normalized_keys.map(mapping_full) of request r
ConcMapKeys(r) ==
    /\ reqs[r].mpc = "map"
    /\ LET q == reqs[r]
       IN  reqs' = [reqs EXCEPT ![r] =
                       [q EXCEPT !.title_series =
                                     map_full(normalized_keys(q.df_other,
                                                              q.settings),
                                              q.mapping_full),
                                 !.mpc = "fallback"]]
    /\ UNCHANGED <<storeVars, sheetVars, imgVars, thumbVars>>
    /\ UNCHANGED <<normVars, cellVars, textVars, mergeVars, guessVars>>

\* the base-key fallback of request r
ConcFallback(r) ==
    /\ reqs[r].mpc = "fallback"
    /\ LET q == reqs[r]
       IN  reqs' = [reqs EXCEPT ![r] =
                       [q EXCEPT !.title_series =
                                     base_fallback(q.title_series,
                                         normalized_keys(q.df_other,
                                                         q.settings),
                                         q.mapping_base, q.settings),
                                 !.mpc = "stats"]]
    /\ UNCHANGED <<storeVars, sheetVars, imgVars, thumbVars>>
    /\ UNCHANGED <<normVars, cellVars, textVars, mergeVars, guessVars>>

\* the counts of request r, and its result put into _FILE_STORE
ConcStats(r) ==
    /\ reqs[r].mpc = "stats"
    /\ \E tok \in token_urlsafe(issued) :
           LET q == reqs[r]
               d == [q EXCEPT !.total = Len(q.df_other),
                              !.matched = count_notna(q.title_series),
                              !.unmatched = Len(q.df_other)
                                            - count_notna(q.title_series),
                              !.file_token = tok,
                              !.mpc = "done"]
           IN  /\ reqs' = [reqs EXCEPT ![r] = d]
               /\ FILE_STORE' = dict_assign(FILE_STORE, tok, result_file(d))
               /\ issued' = dict_assign(issued, tok, "file")
               /\ last' = [op |-> "store_file", token |-> tok,
                           status |-> 200, body |-> None]
    /\ UNCHANGED PAYLOAD_STORE
    /\ UNCHANGED <<sheetVars, imgVars, thumbVars>>
    /\ UNCHANGED <<normVars, cellVars, textVars, mergeVars, guessVars>>

NextConc ==
    \E r \in Requests :
        ConcBuildRow(r) \/ ConcMapKeys(r) \/ ConcFallback(r) \/ ConcStats(r)

SpecConc == InitConc /\ [][NextConc]_vars

(***************************************************************************)
(* C21                                                                     *)
(***************************************************************************)
\* both mappings after rows 1..n of the table exp, built from nothing
RECURSIVE MappingsAfter(_, _, _)
MappingsAfter(exp, n, st) ==
    IF n = 0
    THEN << <<>>, <<>> >>
    ELSE LET b == MappingsAfter(exp, n - 1, st)
         IN  build_row(b[1], b[2], exp[n], st)

\* the label column of a merge of exp and oth run alone
LabelsAlone(st, exp, oth) ==
    LET b    == MappingsAfter(exp, Len(exp), st)
        keys == normalized_keys(oth, st)
    IN  base_fallback(map_full(keys, b[1]), keys, b[2], st)

\* the labels of the export table of request r
LabelsOfReq(r) ==
    {reqs[r].df_export[i].title : i \in DOMAIN reqs[r].df_export}

\* C21: in every interleaving of two merge requests, each one's mappings
\* hold only labels of its own export table at every moment, and its label
\* column, its counts and the file stored under its token are those of the
\* same merge run alone.
C21_NoSharedState ==
    \A r \in Requests :
        LET q == reqs[r]
        IN  /\ \A k \in DOMAIN q.mapping_full :
                   q.mapping_full[k] \in LabelsOfReq(r)
            /\ \A b \in DOMAIN q.mapping_base :
                   q.mapping_base[b] \in LabelsOfReq(r)
            /\ q.mpc \in {"build", "map"} =>
                   <<q.mapping_full, q.mapping_base>> =
                       MappingsAfter(q.df_export, q.row_i - 1, q.settings)
            /\ q.mpc = "done" =>
                   LET alone == LabelsAlone(q.settings, q.df_export,
                                            q.df_other)
                       n     == Cardinality({i \in DOMAIN alone :
                                                alone[i] # NA})
                   IN  /\ q.title_series = alone
                       /\ q.total = Len(q.df_other)
                       /\ q.matched = n
                       /\ q.unmatched = Len(q.df_other) - n
                       /\ q.file_token \in DOMAIN FILE_STORE
                       /\ FILE_STORE[q.file_token] =
                              [titles |-> alone, total |-> Len(q.df_other),
                               matched |-> n,
                               unmatched |-> Len(q.df_other) - n]

\* both requests are done; the second met the key of the first's export
\* table and did not get the first's label for it
C21_Witness ==
    /\ reqs[1].mpc = "done" /\ reqs[2].mpc = "done"
    /\ reqs[1].df_export[1].key = <<"a", "1">>
    /\ reqs[2].df_export[1].key = <<"A", "1", "-">>
    /\ reqs[2].df_other[1] = <<"a", "1">>
    /\ reqs[2].settings.use_base_key
    /\ reqs[2].title_series[1] = TitleOfReq(2, 1)
    /\ reqs[1].file_token # reqs[2].file_token

(***************************************************************************)
(* The spreadsheet tab of the normaliser page: the column is guessed, read *)
(* as text, normalised cell by cell and written to a column of the copy.   *)
(* A sheet is its list of headers and its rows, a row one cell per header; *)
(* a cell is a text or missing (NA).  pandas gives distinct headers.       *)
(***************************************************************************)
\* key in low, for a key of plain lower-case letters
in_lowered(k, c) ==
    \E i \in 1..Len(c) :
        /\ i + Len(k) - 1 <= Len(c)
        /\ lower(SubSeq(c, i, i + Len(k) - 1)) = k

\* ("nummer", "objekt", "id", "arkiv"), in this order
GuessKeys ==
    << <<"n", "u", "m", "m", "e", "r">>, <<"o", "b", "j", "e", "k", "t">>,
       <<"i", "d">>, <<"a", "r", "k", "i", "v">> >>

\* guess_column(df) for a sheet that is not empty
guess_column(cols) ==
    LET hits(k) == {i \in DOMAIN cols : in_lowered(GuessKeys[k], cols[i])}
        found   == {k \in DOMAIN GuessKeys : hits(k) # {}}
    IN  IF found # {}
        THEN cols[Min(hits(Min(found)))]
        ELSE cols[1]

\* "_normaliseret"
NEW_COL_SUFFIX ==
    <<"_", "n", "o", "r", "m", "a", "l", "i", "s", "e", "r", "e", "t">>

\* the text "<NA>"
NA_TEXT == <<"<", "N", "A", ">">>

\* normalize_token(x) if pd.notna(x) and x != '<NA>' else x
normalize_cell(x) ==
    IF x # NA /\ x # NA_TEXT THEN normalize_token(x) ELSE x

\* ser.map(...) over df[colname].astype("string"): one value per row
normalized_ser(cols, rows, name) ==
    LET c == CHOOSE i \in DOMAIN cols : cols[i] = name
    IN  [r \in DOMAIN rows |-> normalize_cell(rows[r][c])]

\* out[name] = values: a column of that name gets the values, otherwise the
\* column is added after the others
set_column(cols, rows, name, values) ==
    IF \E i \in DOMAIN cols : cols[i] = name
    THEN LET c == CHOOSE i \in DOMAIN cols : cols[i] = name
         IN  [cols |-> cols,
              rows |-> [r \in DOMAIN rows |->
                           [rows[r] EXCEPT ![c] = values[r]]]]
    ELSE [cols |-> Append(cols, name),
          rows |-> [r \in DOMAIN rows |-> Append(rows[r], values[r])]]

\* most columns and most rows of a sheet
MaxSheetCols == 2
MaxSheetRows == 1

H_nummer == <<"n", "u", "m", "m", "e", "r">>

SheetHeaders ==
    { H_nummer, H_nummer \o NEW_COL_SUFFIX,
      <<"T", "i", "t", "e", "l">>, <<"I", "D">> }

SheetCells == { NA, <<"1", "x", "2">>, NA_TEXT }

SheetColumnLists ==
    UNION { {s \in [1..n -> SheetHeaders] : Injective(s)} :
            n \in 1..MaxSheetCols }

SheetRows(n) == UNION { [1..m -> [1..n -> SheetCells]] : m \in 1..MaxSheetRows }

InitSheet ==
    /\ sheet_cols \in SheetColumnLists
    /\ sheet_rows \in SheetRows(Len(sheet_cols))
    /\ colname = <<>>
    /\ out_cols = <<>>
    /\ out_rows = <<>>
    /\ spc = "read"
    /\ CoreAtRest /\ StoreAtRest /\ ConcAtRest /\ ImgAtRest /\ ThumbAtRest

\* colname = guess_column(df)
GuessColumn ==
    /\ spc = "read"
    /\ colname' = guess_column(sheet_cols)
    /\ spc' = "guessed"
    /\ UNCHANGED <<sheet_cols, sheet_rows, out_cols, out_rows>>
    /\ UNCHANGED <<storeVars, concVars, imgVars, thumbVars>>
    /\ UNCHANGED <<normVars, cellVars, textVars, mergeVars, guessVars>>

\* out = df.copy(); out[f"{colname}_normaliseret"] = normalized_ser
NormalizeColumn ==
    /\ spc = "guessed"
    /\ LET out == set_column(sheet_cols, sheet_rows,
                             colname \o NEW_COL_SUFFIX,
                             normalized_ser(sheet_cols, sheet_rows, colname))
       IN  /\ out_cols' = out.cols
           /\ out_rows' = out.rows
    /\ spc' = "written"
    /\ UNCHANGED <<sheet_cols, sheet_rows, colname>>
    /\ UNCHANGED <<storeVars, concVars, imgVars, thumbVars>>
    /\ UNCHANGED <<normVars, cellVars, textVars, mergeVars, guessVars>>

NextSheet == GuessColumn \/ NormalizeColumn

SpecSheet == InitSheet /\ [][NextSheet]_vars

(***************************************************************************)
(* C25                                                                     *)
(***************************************************************************)
\* the position of the guessed column in the uploaded sheet
GuessedAt == CHOOSE i \in DOMAIN sheet_cols : sheet_cols[i] = colname

\* C25: the produced sheet holds every column of the uploaded sheet with
\* its values unchanged, and after them one added column named
\* <guessed column>_normaliseret whose cell is, in each row, normalize_token
\* of the guessed column's cell as text, and missing where that is missing.
C25_KeepsOriginal ==
    spc = "written" =>
        /\ Len(out_cols) = Len(sheet_cols) + 1
        /\ \A c \in DOMAIN sheet_cols : out_cols[c] = sheet_cols[c]
        /\ out_cols[Len(out_cols)] = colname \o NEW_COL_SUFFIX
        /\ Len(out_rows) = Len(sheet_rows)
        /\ \A r \in DOMAIN sheet_rows :
               /\ \A c \in DOMAIN sheet_cols : out_rows[r][c] = sheet_rows[r][c]
               /\ out_rows[r][Len(out_cols)] =
                      IF sheet_rows[r][GuessedAt] = NA
                      THEN NA
                      ELSE normalize_token(sheet_rows[r][GuessedAt])

(***************************************************************************)
(* The quality search of create_thumbnail.  What the search reads of an    *)
(* encode is where its size falls: within the accepted band, under it or   *)
(* over the limit; of the image, its longer side.  The encoded size of     *)
(* every attempt is any of the three.                                      *)
(***************************************************************************)
\* quality = 95
START_QUALITY == 95

\* for attempt in range(12)
ATTEMPTS == 12

\* size_kb against max_size_kb: in [0.75 * max, max], below, above
SizeClasses == {"accepted", "under", "over"}

\* the quality after an encode that is not returned
next_quality(q, size) ==
    IF size = "under"
    THEN Min({95, q + 5})
    ELSE IF q > 70 THEN q - 5 ELSE q - 10

\* the encode is returned: within the band, or under it at quality 95
returns(q, size) == size = "accepted" \/ (size = "under" /\ q >= 95)

\* max(new_size) for new_size = (int(width * 0.85), int(height * 0.85))
resized(s) == (s * 85) \div 100

\* quality <= 40 and max(temp_image.size) > 600
must_resize(q, s) == q <= 40 /\ s > 600

\* the longer side of the uploaded image, in pixels
Sides == {300, 600, 601, 700, 1000, 4000}

InitThumb ==
    /\ quality = START_QUALITY
    /\ attempt = 0
    /\ side \in Sides
    /\ used = 0
    /\ thpc = "loop"
    /\ CoreAtRest /\ StoreAtRest /\ ConcAtRest /\ SheetAtRest /\ ImgAtRest

\* one turn of the loop: the encode at the present quality, and what follows
Attempt ==
    /\ thpc = "loop"
    /\ \E size \in SizeClasses :
           /\ used' = quality
           /\ IF returns(quality, size)
              THEN /\ thpc' = "returned"
                   /\ UNCHANGED <<quality, attempt, side>>
              ELSE LET q == next_quality(quality, size)
                   IN  /\ IF must_resize(q, side)
                          THEN quality' = 85 /\ side' = resized(side)
                          ELSE quality' = q /\ side' = side
                       /\ attempt' = attempt + 1
                       /\ thpc' = IF attempt + 1 = ATTEMPTS
                                  THEN "final" ELSE "loop"
    /\ UNCHANGED <<storeVars, concVars, sheetVars, imgVars>>
    /\ UNCHANGED <<normVars, cellVars, textVars, mergeVars, guessVars>>

\* the save after the loop
FinalSave ==
    /\ thpc = "final"
    /\ used' = quality
    /\ thpc' = "returned"
    /\ UNCHANGED <<quality, attempt, side>>
    /\ UNCHANGED <<storeVars, concVars, sheetVars, imgVars>>
    /\ UNCHANGED <<normVars, cellVars, textVars, mergeVars, guessVars>>

NextThumb == Attempt \/ FinalSave

SpecThumb == InitThumb /\ [][NextThumb]_vars

(***************************************************************************)
(* C30                                                                     *)
(***************************************************************************)
\* an encode has been made
Encoded == attempt > 0 \/ thpc = "returned"

\* C30: whatever the encoded sizes and the size of the image, the quality
\* of every JPEG encode, the one after the twelve attempts included, is
\* between 1 and 95.
C30_QualityRange == Encoded => (1 <= used /\ used <= 95)

(***************************************************************************)
(* The image page: _IMAGE_STORE, _GROUP_STORE, the three submissions and   *)
(* download_zip.  Tokens are numbered in the order in which they are       *)
(* handed out (secrets.token_urlsafe(24) is taken never to repeat); 0 is   *)
(* a request without token.  An image is what it is a version of; a ZIP is *)
(* the list of its entries, each a folder, a file name and an image.  The  *)
(* folders above the case folder and the files written by auto_organize    *)
(* are left out: neither touches a store or the ZIP.  A submission is     *)
(* taken while the tokens left suffice for the largest one.                *)
(***************************************************************************)
\* re.search(r'(\d{4})x\d{4}', filename): group 1, or nothing
NoCase == <<>>

extract_case_number(filename) ==
    LET starts == {i \in 1..(Len(filename) - 8) :
                      /\ \A j \in 0..3 : filename[i + j] \in Digits
                      /\ filename[i + 4] = "x"
                      /\ \A j \in 5..8 : filename[i + j] \in Digits}
    IN  IF starts = {}
        THEN NoCase
        ELSE SubSeq(filename, Min(starts), Min(starts) + 3)

\* get_case_folder_relative(case_number), without the range folders
case_folder(case) == <<"Museum">> \o case

\* f"AAB {name}.jpg" if use_aab_prefix else f"{name}.jpg", with the letter of
\* the image within its group
file_name(name, letter, aab) ==
    (IF aab THEN <<"A", "A", "B", " ">> ELSE <<>>)
        \o name \o letter \o <<".", "j", "p", "g">>

\* _store_image(data): token and store afterwards
store_image(st, n, data) ==
    [token |-> n + 1, store |-> dict_assign(st, n + 1, data),
     issued |-> n + 1]

\* the two versions of one upload stored, and the pair of their tokens
store_pair(acc, fname) ==
    LET s == store_image(acc.store, acc.issued,
                         [kind |-> "small", of |-> fname])
        l == store_image(s.store, s.issued, [kind |-> "large", of |-> fname])
    IN  [store |-> l.store, issued |-> l.issued, error |-> FALSE,
         files |-> Append(acc.files, [small |-> s.token, large |-> l.token,
                                      filename |-> fname])]

\* the loop of handle_individual_submission from item k on
RECURSIVE individual_loop(_, _, _, _, _)
individual_loop(items, k, nfiles, aab, acc) ==
    IF k > Len(items)
    THEN acc
    ELSE LET name == strip(items[k])
         IN  IF name = <<>>
             THEN [acc EXCEPT !.error = TRUE]
             ELSE IF k - 1 < nfiles
             THEN individual_loop(items, k + 1, nfiles, aab,
                                  store_pair(acc, file_name(name, <<>>, aab)))
             ELSE individual_loop(items, k + 1, nfiles, aab, acc)

\* not group_name or group_name == 'unnamed' or group_name.lower() == 'gruppe'
bad_group_name(name) ==
    \/ name = <<>>
    \/ name = <<"u", "n", "n", "a", "m", "e", "d">>
    \/ lower(name) = <<"g", "r", "u", "p", "p", "e">>

\* the images of one group from its j-th on; first is the index of the
\* group's first image among the uploads
RECURSIVE group_images(_, _, _, _, _, _)
group_images(g, j, first, nfiles, aab, acc) ==
    IF j > g.images
    THEN acc
    ELSE IF first + j - 1 < nfiles
    THEN group_images(g, j + 1, first, nfiles, aab,
                      store_pair(acc, file_name(strip(g.name),
                                                <<" ", LowerCase[j]>>, aab)))
    ELSE group_images(g, j + 1, first, nfiles, aab, acc)

\* the second loop of handle_group_submission from group k on
RECURSIVE group_loop(_, _, _, _, _, _)
group_loop(groups, k, first, nfiles, aab, acc) ==
    IF k > Len(groups)
    THEN acc
    ELSE group_loop(groups, k + 1, first + groups[k].images, nfiles, aab,
                    group_images(groups[k], 1, first, nfiles, aab, acc))

\* handle_group_submission: the names are validated, then the images stored
group_submission(groups, nfiles, aab, acc) ==
    IF \E k \in DOMAIN groups : bad_group_name(strip(groups[k].name))
    THEN [acc EXCEPT !.error = TRUE]
    ELSE group_loop(groups, 1, 0, nfiles, aab, acc)

\* the loop of handle_simple_resize from file k on
RECURSIVE simple_loop(_, _, _)
simple_loop(names, k, acc) ==
    IF k > Len(names)
    THEN acc
    ELSE LET fname == file_name(names[k], <<>>, FALSE)
             s     == store_image(acc.store, acc.issued,
                                  [kind |-> "simple", of |-> fname])
         IN  simple_loop(names, k + 1,
                 [acc EXCEPT !.store = s.store, !.issued = s.issued,
                             !.files = Append(@, [small |-> s.token,
                                                  large |-> NoToken,
                                                  filename |-> fname])])

\* mutant: the group entry is taken out of the store when it is read
pop_group_data(store, tok) ==
    [found |-> tok \in DOMAIN store,
     data |-> IF tok \in DOMAIN store THEN store[tok] ELSE None,
     store |-> [x \in DOMAIN store \ {tok} |-> store[x]]]

\* _get_group_data(token): the entry if there is one, and the store
\* afterwards
get_group_data(store, tok) ==
    [found |-> tok \in DOMAIN store,
     data |-> IF tok \in DOMAIN store THEN store[tok] ELSE None,
     store |-> store]

\* zip_file.writestr(f"{folder}/{filename}", data) if the image store st
\* has data under the token: the entries written
zip_entry(folder, fname, st, tok) ==
    IF tok \in DOMAIN st
    THEN << [folder |-> folder, filename |-> fname, data |-> st[tok]] >>
    ELSE <<>>

\* the part of download_zip for one file: the entries written and the image
\* store afterwards
zip_file_pair(st, f, type, museum) ==
    IF type = "simple_resize"
    THEN [zip |-> zip_entry(<<>>, f.filename, st, f.small),
          store |-> pop(st, f.small).store]
    ELSE IF museum
    THEN LET case == extract_case_number(f.filename)
             \* after large_data = _pop_image(...) in the case branch
             st1  == IF case # NoCase THEN pop(st, f.large).store ELSE st
             \* after small_data = _pop_image(...)
             st2  == pop(st1, f.small).store
         IN  [zip |-> (IF case # NoCase
                       THEN zip_entry(case_folder(case), f.filename, st,
                                      f.large)
                       ELSE <<>>)
                      \o zip_entry(<<"reference", "small">>, f.filename, st1,
                                   f.small)
                      \o zip_entry(<<"reference", "large">>, f.filename, st2,
                                   f.large),
              store |-> st2]
    ELSE LET st1 == pop(st, f.small).store
         IN  [zip |-> zip_entry(<<"small">>, f.filename, st, f.small)
                      \o zip_entry(<<"large">>, f.filename, st1, f.large),
              store |-> pop(st1, f.large).store]

\* the loop of download_zip over the files of the group from file k on
RECURSIVE zip_files(_, _, _, _, _)
zip_files(files, k, type, museum, acc) ==
    IF k > Len(files)
    THEN acc
    ELSE LET r == zip_file_pair(acc.store, files[k], type, museum)
         IN  zip_files(files, k + 1, type, museum,
                       [zip |-> acc.zip \o r.zip, store |-> r.store])

\* most uploads of one submission, and most tokens handed out
MaxItems == 2
MaxImgTokens == 7

T_vase == <<"v", "a", "s", "e">>

\* names given to images: blank, with a case number, without one
ItemNames == { <<" ">>, T_0217x0054, T_vase }

\* names given to groups: refused, with a case number, without one
GroupNames == { <<"G", "r", "u", "p", "p", "e">>, T_0217x0054, T_vase }

ItemLists == UNION {[1..n -> ItemNames] : n \in 1..MaxItems}

RECURSIVE SumImages(_, _)
SumImages(groups, k) ==
    IF k = 0 THEN 0 ELSE groups[k].images + SumImages(groups, k - 1)

\* the groups of one submission: no more than MaxItems images in all
GroupLists ==
    UNION { {gs \in [1..n -> [name : GroupNames, images : 1..MaxItems]] :
                SumImages(gs, n) <= MaxItems} :
            n \in 1..MaxItems }

\* the tokens the largest submission takes: two per upload and the group's
LargestSubmission == 2 * MaxItems + 1

\* the answer of a request
answer(op, tok, museum, status, error, zip) ==
    [op |-> op, token |-> tok, museum |-> museum, status |-> status,
     error |-> error, zip |-> zip]

InitImages ==
    /\ IMAGE_STORE = <<>>
    /\ GROUP_STORE = <<>>
    /\ img_issued = 0
    /\ img_last = answer("none", NoToken, FALSE, 0, FALSE, <<>>)
    /\ CoreAtRest /\ StoreAtRest /\ ConcAtRest /\ SheetAtRest /\ ThumbAtRest

\* the stores and the answer after the loops of a submission gave r
Submitted(op, type, r) ==
    /\ IMAGE_STORE' = r.store
    /\ IF r.error
       THEN /\ GROUP_STORE' = GROUP_STORE
            /\ img_issued' = r.issued
            /\ img_last' = answer(op, NoToken, FALSE, 200, TRUE, <<>>)
       ELSE /\ GROUP_STORE' = dict_assign(GROUP_STORE, r.issued + 1,
                                          [type |-> type, files |-> r.files])
            /\ img_issued' = r.issued + 1
            /\ img_last' = answer(op, r.issued + 1, FALSE, 200, FALSE, <<>>)

\* what a submission starts from
Start ==
    [store |-> IMAGE_STORE, issued |-> img_issued, error |-> FALSE,
     files |-> <<>>]

\* handle_individual_submission(files)
SubmitIndividual ==
    /\ img_issued + LargestSubmission <= MaxImgTokens
    /\ \E items \in ItemLists, nfiles \in 1..MaxItems, aab \in BOOLEAN :
           Submitted("individual", "pairs",
                     individual_loop(items, 1, nfiles, aab, Start))
    /\ UNCHANGED <<storeVars, concVars, sheetVars, thumbVars>>
    /\ UNCHANGED <<normVars, cellVars, textVars, mergeVars, guessVars>>

\* handle_group_submission(files, groups_data)
SubmitGroups ==
    /\ img_issued + LargestSubmission <= MaxImgTokens
    /\ \E groups \in GroupLists, nfiles \in 1..MaxItems, aab \in BOOLEAN :
           Submitted("grouping", "pairs",
                     group_submission(groups, nfiles, aab, Start))
    /\ UNCHANGED <<storeVars, concVars, sheetVars, thumbVars>>
    /\ UNCHANGED <<normVars, cellVars, textVars, mergeVars, guessVars>>

\* handle_simple_resize()
SubmitSimple ==
    /\ img_issued + LargestSubmission <= MaxImgTokens
    /\ \E names \in UNION {[1..n -> {T_vase}] : n \in 1..MaxItems} :
           Submitted("simple", "simple_resize", simple_loop(names, 1, Start))
    /\ UNCHANGED <<storeVars, concVars, sheetVars, thumbVars>>
    /\ UNCHANGED <<normVars, cellVars, textVars, mergeVars, guessVars>>

\* GET /resizer/download_zip?token=...&museum_structure=...
DownloadZip ==
    /\ \E tok \in 0..MaxImgTokens, museum \in BOOLEAN :
           IF tok = NoToken
           THEN /\ img_last' = answer("download_zip", tok, museum, 400, TRUE,
                                      <<>>)
                /\ UNCHANGED <<IMAGE_STORE, GROUP_STORE>>
           ELSE LET g == get_group_data(GROUP_STORE, tok)
                IN  IF ~g.found
                    THEN /\ img_last' = answer("download_zip", tok, museum,
                                               410, TRUE, <<>>)
                         /\ GROUP_STORE' = g.store
                         /\ UNCHANGED IMAGE_STORE
                    ELSE LET z == zip_files(g.data.files, 1, g.data.type,
                                            museum,
                                            [zip |-> <<>>,
                                             store |-> IMAGE_STORE])
                         IN  /\ img_last' = answer("download_zip", tok,
                                                   museum, 200, FALSE, z.zip)
                             /\ IMAGE_STORE' = z.store
                             /\ GROUP_STORE' = g.store
    /\ UNCHANGED img_issued
    /\ UNCHANGED <<storeVars, concVars, sheetVars, thumbVars>>
    /\ UNCHANGED <<normVars, cellVars, textVars, mergeVars, guessVars>>

NextImages == SubmitIndividual \/ SubmitGroups \/ SubmitSimple \/ DownloadZip

SpecImages == InitImages /\ [][NextImages]_vars

(***************************************************************************)
(* C26                                                                     *)
(***************************************************************************)
\* the ZIP z has an entry for the file name in the folder, holding data
HasEntry(z, folder, fname, data) ==
    \E e \in DOMAIN z :
        z[e] = [folder |-> folder, filename |-> fname, data |-> data]

\* the step is a download_zip of the group under token t, answered by a ZIP
ZipOf(t, museum) ==
    /\ img_last'.op = "download_zip"
    /\ img_last'.token = t
    /\ img_last'.museum = museum
    /\ img_last'.status = 200

\* C26: a download_zip with museum_structure=true puts, for every file pair
\* of the group whose two images are in the image store, the small image
\* under reference/small/<filename> and the large image under
\* reference/large/<filename>, and the large image under the case folder as
\* well when the file name holds a case number.
C26_MuseumZip ==
    [][\A t \in DOMAIN GROUP_STORE :
           (ZipOf(t, TRUE) /\ GROUP_STORE[t].type = "pairs") =>
               \A k \in DOMAIN GROUP_STORE[t].files :
                   LET f == GROUP_STORE[t].files[k]
                   IN  (f.small \in DOMAIN IMAGE_STORE
                        /\ f.large \in DOMAIN IMAGE_STORE) =>
                           /\ HasEntry(img_last'.zip, <<"reference", "small">>,
                                       f.filename, IMAGE_STORE[f.small])
                           /\ HasEntry(img_last'.zip, <<"reference", "large">>,
                                       f.filename, IMAGE_STORE[f.large])
                           /\ extract_case_number(f.filename) # NoCase =>
                                  HasEntry(img_last'.zip,
                                      case_folder(extract_case_number(
                                                      f.filename)),
                                      f.filename, IMAGE_STORE[f.large])
      ]_vars

(***************************************************************************)
(* C28                                                                     *)
(***************************************************************************)
\* C28: a grouping-mode or individual-mode submission that is refused for
\* a missing or invalid name has added no image to the image store and no
\* entry to the group store.
C28_RejectedLeavesStores ==
    [][(img_last'.op \in {"individual", "grouping"} /\ img_last'.error) =>
           /\ IMAGE_STORE' = IMAGE_STORE
           /\ GROUP_STORE' = GROUP_STORE
      ]_vars

(***************************************************************************)
(* C29                                                                     *)
(***************************************************************************)
\* the tokens of the images of the group under token t
ImagesOf(t) ==
    {GROUP_STORE[t].files[k].small : k \in DOMAIN GROUP_STORE[t].files}
        \cup {GROUP_STORE[t].files[k].large :
                  k \in DOMAIN GROUP_STORE[t].files}

\* C29: no step removes or changes a group entry; a flat download_zip
\* removes the images of its group; so a later download_zip with the same
\* token, finding the group and none of its images, answers with a ZIP
\* without entries, not with 410.
C29_RepeatedZip ==
    [][\A t \in DOMAIN GROUP_STORE :
           /\ t \in DOMAIN GROUP_STORE'
           /\ GROUP_STORE'[t] = GROUP_STORE[t]
           /\ ZipOf(t, FALSE) => ImagesOf(t) \cap DOMAIN IMAGE_STORE' = {}
           /\ (img_last'.op = "download_zip" /\ img_last'.token = t
               /\ ImagesOf(t) \cap DOMAIN IMAGE_STORE = {}) =>
                  img_last'.status = 200 /\ img_last'.zip = <<>>
      ]_vars

\* a flat download of a group with files was answered by an empty ZIP
C29_Witness ==
    /\ img_last.op = "download_zip"
    /\ ~img_last.museum
    /\ img_last.status = 200
    /\ img_last.zip = <<>>
    /\ img_last.token \in DOMAIN GROUP_STORE
    /\ GROUP_STORE[img_last.token].type = "pairs"
    /\ GROUP_STORE[img_last.token].files # <<>>
    /\ ImagesOf(img_last.token) \cap DOMAIN IMAGE_STORE = {}

====
